---- MODULE Spec2Model ----
(***************************************************************************)
(* Production schedule reflow: DependencyGraph (Kahn's topological sort),  *)
(* ConstraintChecker (shift / maintenance / overlap search over a ledger)  *)
(* and ReflowService.computeReflow (the per-order scheduling loop).        *)
(*                                                                         *)
(* Time is counted in whole seconds from a Sunday 00:00 UTC.  ISO strings  *)
(* are records of (day, hour, minute, second); an unparsable string has    *)
(* valid = FALSE.  A JavaScript Map is a record of its keys in insertion   *)
(* order and its values.  Optional result fields are sequences of length 0 *)
(* or 1.  durationMinutes is a whole number of minutes.                    *)
(***************************************************************************)
EXTENDS Integers, Sequences, FiniteSets, TLC

VARIABLES
    workOrders,           \* ReflowService.workOrders / DependencyGraph.workOrders (input documents)
    workCenters,          \* ReflowService.workCenters (input documents)
    existingSchedule,     \* the caller's options.existingSchedule array
    schedule,             \* ConstraintChecker.schedule (the ledger)
    adjList,              \* DependencyGraph.adjList
    inDegree,             \* DependencyGraph.inDegree
    orderedWorkOrderIds,  \* the array returned by getTopologicalOrder
    results,              \* computeReflow's results array
    pc,                   \* position of the run
    idx,                  \* index of the for-loop over orderedWorkOrderIds
    pending,              \* outcome of findEarliestFeasibleSlot held across the await
    error,                \* structural error thrown to the caller ("none" if none)
    collided,             \* history: booked slots the last search collided with
    calls,                \* number of getTopologicalOrder calls on the graph
    runs,                 \* number of services constructed by the caller so far
    prevResults,          \* history: what the previous run returned
    prevOutcome,          \* history: how the previous run ended
    other                 \* a second computeReflow call on the same service: its locals

vars == <<workOrders, workCenters, existingSchedule, schedule, adjList, inDegree,
          orderedWorkOrderIds, results, pc, idx, pending, error, collided, calls,
          runs, prevResults, prevOutcome, other>>

----------------------------------------------------------------------------
(* Bounds of the model *)

MaxNodes == 3
MaxOrders == 2
MaxCalls == 2

----------------------------------------------------------------------------
(* Time and ISO strings *)

SecondsPerMinute == 60
MinutesPerHour == 60
HoursPerDay == 24
DaysPerWeek == 7
SecondsPerHour == MinutesPerHour * SecondsPerMinute
SecondsPerDay == HoursPerDay * SecondsPerHour

\* Math.floor(milliseconds / 60000) of a span.
FloorMinutes(span) == span \div SecondsPerMinute

\* Math.round(duration.minutes) of a span: the nearest whole minute, a half
\* going up.
RoundMinutes(span) == (2 * span + SecondsPerMinute) \div (2 * SecondsPerMinute)

\* plus({ minutes: n })
PlusMinutes(t, n) == t + n * SecondsPerMinute

\* An invalid luxon DateTime (isValid = false; valueOf() is NaN).
InvalidTime == -1

IsValidTime(t) == t # InvalidTime

\* JavaScript ">" on two DateTimes: false as soon as one side is NaN.
After(a, b) == IsValidTime(a) /\ IsValidTime(b) /\ a > b

InvalidISO == [valid |-> FALSE, day |-> 0, hour |-> 0, minute |-> 0, second |-> 0]

\* DateTime.toISO() of a valid UTC DateTime.
ToISO(t) ==
    [valid |-> TRUE,
     day |-> t \div SecondsPerDay,
     hour |-> (t % SecondsPerDay) \div SecondsPerHour,
     minute |-> (t % SecondsPerHour) \div SecondsPerMinute,
     second |-> t % SecondsPerMinute]

\* DateTime.fromISO(s, { zone: "utc" }).
FromISO(s) ==
    IF s.valid
    THEN ((s.day * HoursPerDay + s.hour) * MinutesPerHour + s.minute) * SecondsPerMinute
             + s.second
    ELSE InvalidTime

\* String(dt.toISO() ?? fallback)
ToISOOr(t, fallback) == IF IsValidTime(t) THEN ToISO(t) ELSE fallback

----------------------------------------------------------------------------
(* JavaScript Map: keys in insertion order, values by key *)

EmptyMap == [keys |-> <<>>, val |-> <<>>]

MapHas(m, k) == k \in DOMAIN m.val

MapGet(m, k) == m.val[k]

MapSet(m, k, v) ==
    IF MapHas(m, k)
    THEN [m EXCEPT !.val[k] = v]
    ELSE [keys |-> Append(m.keys, k), val |-> (k :> v) @@ m.val]

----------------------------------------------------------------------------
(* DependencyGraph *)

\* buildGraph, first loop: every node gets an empty child list and in-degree 0.
RECURSIVE InitNodes(_, _, _)
InitNodes(wos, i, g) ==
    IF i > Len(wos) THEN g
    ELSE InitNodes(wos, i + 1,
                   [g EXCEPT !.adjList = MapSet(@, wos[i].docId, <<>>),
                             !.inDegree = MapSet(@, wos[i].docId, 0)])

\* Mutant: a dependency id that is no node is skipped instead of rejected.
RECURSIVE AddDependenciesSkipUnknown(_, _, _)
AddDependenciesSkipUnknown(g, wo, j) ==
    IF j > Len(wo.dependsOnWorkOrderIds) THEN g
    ELSE LET depId == wo.dependsOnWorkOrderIds[j] IN
         IF ~MapHas(g.adjList, depId)
         THEN AddDependenciesSkipUnknown(g, wo, j + 1)
         ELSE AddDependenciesSkipUnknown(
                  [g EXCEPT !.adjList = MapSet(@, depId, Append(MapGet(@, depId), wo.docId)),
                            !.inDegree = MapSet(@, wo.docId, MapGet(@, wo.docId) + 1)],
                  wo, j + 1)

\* Mutant: a dependency id that is no node gets a node of its own.
RECURSIVE AddDependenciesCreateUnknown(_, _, _)
AddDependenciesCreateUnknown(g, wo, j) ==
    IF j > Len(wo.dependsOnWorkOrderIds) THEN g
    ELSE LET depId == wo.dependsOnWorkOrderIds[j]
             adj == IF MapHas(g.adjList, depId) THEN g.adjList
                    ELSE MapSet(g.adjList, depId, <<>>)
         IN  AddDependenciesCreateUnknown(
                 [g EXCEPT !.adjList = MapSet(adj, depId, Append(MapGet(adj, depId), wo.docId)),
                           !.inDegree = MapSet(@, wo.docId, MapGet(@, wo.docId) + 1)],
                 wo, j + 1)

\* Mutant: the edge is drawn from the work order to its dependency.
RECURSIVE AddDependenciesReversed(_, _, _)
AddDependenciesReversed(g, wo, j) ==
    IF g.error # "none" \/ j > Len(wo.dependsOnWorkOrderIds) THEN g
    ELSE LET depId == wo.dependsOnWorkOrderIds[j] IN
         IF ~MapHas(g.adjList, depId)
         THEN [g EXCEPT !.error = "UnknownDependency"]
         ELSE AddDependenciesReversed(
                  [g EXCEPT !.adjList = MapSet(@, wo.docId, Append(MapGet(@, wo.docId), depId)),
                            !.inDegree = MapSet(@, depId, MapGet(@, depId) + 1)],
                  wo, j + 1)

\* buildGraph, inner loop over one work order's dependsOnWorkOrderIds.
RECURSIVE AddDependencies(_, _, _)
AddDependencies(g, wo, j) ==
    IF g.error # "none" \/ j > Len(wo.dependsOnWorkOrderIds) THEN g
    ELSE LET depId == wo.dependsOnWorkOrderIds[j] IN
         IF ~MapHas(g.adjList, depId)
         THEN [g EXCEPT !.error = "UnknownDependency"]
         ELSE AddDependencies(
                  [g EXCEPT !.adjList = MapSet(@, depId, Append(MapGet(@, depId), wo.docId)),
                            !.inDegree = MapSet(@, wo.docId, MapGet(@, wo.docId) + 1)],
                  wo, j + 1)

\* buildGraph, second loop over the work orders.
RECURSIVE PopulateEdges(_, _, _)
PopulateEdges(wos, i, g) ==
    IF g.error # "none" \/ i > Len(wos) THEN g
    ELSE PopulateEdges(wos, i + 1, AddDependencies(g, wos[i], 1))

\* new DependencyGraph(workOrders): the graph, or the error the constructor throws.
BuildGraph(wos) ==
    PopulateEdges(wos, 1,
                  InitNodes(wos, 1, [adjList |-> EmptyMap, inDegree |-> EmptyMap,
                                     error |-> "none"]))

\* getTopologicalOrder: the ids whose in-degree is 0, in the Map's iteration order.
ZeroDegreeIds(inDeg) == SelectSeq(inDeg.keys, LAMBDA id : MapGet(inDeg, id) = 0)

\* Mutant: every decremented child is enqueued, whatever its in-degree.
RECURSIVE RelaxNeighborsEager(_, _, _, _)
RelaxNeighborsEager(nbrs, j, inDeg, queue) ==
    IF j > Len(nbrs) THEN [inDegree |-> inDeg, queue |-> queue]
    ELSE RelaxNeighborsEager(nbrs, j + 1,
                             MapSet(inDeg, nbrs[j], MapGet(inDeg, nbrs[j]) - 1),
                             Append(queue, nbrs[j]))

\* getTopologicalOrder, inner loop: decrement each child, enqueue it when it reaches 0.
RECURSIVE RelaxNeighbors(_, _, _, _)
RelaxNeighbors(nbrs, j, inDeg, queue) ==
    IF j > Len(nbrs) THEN [inDegree |-> inDeg, queue |-> queue]
    ELSE LET d == MapGet(inDeg, nbrs[j]) - 1 IN
         RelaxNeighbors(nbrs, j + 1, MapSet(inDeg, nbrs[j], d),
                        IF d = 0 THEN Append(queue, nbrs[j]) ELSE queue)

\* Mutant: the loop takes the id queued last (queue.pop()) instead of the first.
RECURSIVE KahnLoopStack(_, _, _, _)
KahnLoopStack(adj, inDeg, queue, sorted) ==
    IF queue = <<>> THEN [sorted |-> sorted, inDegree |-> inDeg]
    ELSE LET current == queue[Len(queue)]
             r == RelaxNeighbors(MapGet(adj, current), 1, inDeg,
                                 SubSeq(queue, 1, Len(queue) - 1))
         IN  KahnLoopStack(adj, r.inDegree, r.queue, Append(sorted, current))

\* getTopologicalOrder, while loop over the queue.
RECURSIVE KahnLoop(_, _, _, _)
KahnLoop(adj, inDeg, queue, sorted) ==
    IF queue = <<>> THEN [sorted |-> sorted, inDegree |-> inDeg]
    ELSE LET current == Head(queue)
             r == RelaxNeighbors(MapGet(adj, current), 1, inDeg, Tail(queue))
         IN  KahnLoop(adj, r.inDegree, r.queue, Append(sorted, current))

\* Mutant: the length of the sorted list is not compared with the input's.
TopologicalOrderUnchecked(wos, adj, inDeg) ==
    LET r == KahnLoop(adj, inDeg, ZeroDegreeIds(inDeg), <<>>) IN
    [sorted |-> r.sorted, inDegree |-> r.inDegree, error |-> "none"]

\* getTopologicalOrder: the order returned (or the error thrown) and the in-degree
\* map as the call leaves it.
TopologicalOrder(wos, adj, inDeg) ==
    LET r == KahnLoop(adj, inDeg, ZeroDegreeIds(inDeg), <<>>) IN
    IF Len(r.sorted) # Len(wos)
    THEN [sorted |-> <<>>, inDegree |-> r.inDegree, error |-> "CycleDetected"]
    ELSE [sorted |-> r.sorted, inDegree |-> r.inDegree, error |-> "none"]

----------------------------------------------------------------------------
(* ConstraintChecker: program constants *)

MaxSearchDays == 30
ShiftLookaheadDays == 14
MaxDays == 365
MaxLoopCount == 10000
RetryGapMinutes == 1

----------------------------------------------------------------------------
(* ConstraintChecker: ledger *)

\* Array.prototype.sort by start on an array that was sorted before its last
\* element was pushed (the sort is stable: x goes after every element whose
\* start is not larger).
RECURSIVE InsertByStart(_, _)
InsertByStart(seq, x) ==
    IF seq = <<>> THEN <<x>>
    ELSE IF x.start < Head(seq).start THEN <<x>> \o seq
    ELSE <<Head(seq)>> \o InsertByStart(Tail(seq), x)

\* Array.prototype.sort((a, b) => a.start - b.start): stable sort by start.
RECURSIVE SortByStart(_)
SortByStart(seq) ==
    IF seq = <<>> THEN <<>>
    ELSE InsertByStart(SortByStart(SubSeq(seq, 1, Len(seq) - 1)), seq[Len(seq)])

\* Mutant: the constructor drops a caller's slot that intersects one listed
\* before it on the same work center.
NewScheduleDisjoint(existing) ==
    LET kept == SelectSeq(
                    [k \in 1..Len(existing) |-> [slot |-> existing[k], at |-> k]],
                    LAMBDA e : \A j \in 1..(e.at - 1) :
                                   \/ existing[j].workCenterDocId # e.slot.workCenterDocId
                                   \/ existing[j].end <= e.slot.start
                                   \/ e.slot.end <= existing[j].start)
    IN  SortByStart([k \in 1..Len(kept) |-> kept[k].slot])

\* ConstraintChecker constructor: the ledger is a sorted shallow copy of the
\* caller's array.
NewSchedule(existing) == SortByStart(existing)

\* pushScheduledSlot: append, then sort by start.
PushScheduledSlot(sched, slot) == SortByStart(Append(sched, slot))

\* Mutant: the ledger is the caller's array itself, so the push lands in it.
ExistingScheduleAliased(callerArray, slot) == SortByStart(Append(callerArray, slot))

\* The caller's existingSchedule array after a pushScheduledSlot: the ledger is
\* a copy (slice), so the push does not reach the caller's array.
ExistingScheduleAfterPush(callerArray, slot) == callerArray

\* Mutant: the second comparison reads the slot's start where its end belongs.
RECURSIVE FindOverlappingSlotStartTwice(_, _, _, _, _)
FindOverlappingSlotStartTwice(sched, k, workCenterDocId, start, end) ==
    IF k > Len(sched) THEN <<>>
    ELSE IF sched[k].workCenterDocId = workCenterDocId
            /\ sched[k].start < end /\ start < sched[k].start
         THEN <<sched[k]>>
         ELSE FindOverlappingSlotStartTwice(sched, k + 1, workCenterDocId, start, end)

\* Mutant: a candidate that begins at the instant a slot ends counts as
\* overlapping it.
RECURSIVE FindOverlappingSlotClosed(_, _, _, _, _)
FindOverlappingSlotClosed(sched, k, workCenterDocId, start, end) ==
    IF k > Len(sched) THEN <<>>
    ELSE IF sched[k].workCenterDocId = workCenterDocId
            /\ sched[k].start <= end /\ start <= sched[k].end
         THEN <<sched[k]>>
         ELSE FindOverlappingSlotClosed(sched, k + 1, workCenterDocId, start, end)

\* Mutant: slots of every work center are compared with the candidate.
RECURSIVE FindOverlappingSlotAnyWorkCenter(_, _, _, _, _)
FindOverlappingSlotAnyWorkCenter(sched, k, workCenterDocId, start, end) ==
    IF k > Len(sched) THEN <<>>
    ELSE IF sched[k].start < end /\ start < sched[k].end
         THEN <<sched[k]>>
         ELSE FindOverlappingSlotAnyWorkCenter(sched, k + 1, workCenterDocId, start, end)

\* findOverlappingSlot: the first slot of the work center, in ledger order, that
\* intersects [start, end).
RECURSIVE FindOverlappingSlot(_, _, _, _, _)
FindOverlappingSlot(sched, k, workCenterDocId, start, end) ==
    IF k > Len(sched) THEN <<>>
    ELSE IF sched[k].workCenterDocId = workCenterDocId
            /\ sched[k].start < end /\ start < sched[k].end
         THEN <<sched[k]>>
         ELSE FindOverlappingSlot(sched, k + 1, workCenterDocId, start, end)

----------------------------------------------------------------------------
(* ConstraintChecker: maintenance helpers *)

\* safeIntervalFromISO: <<>> for null, else the interval.  Interval.fromISO is
\* invalid when a bound does not parse or the end is before the start.
SafeIntervalFromISO(startIso, endIso) ==
    LET s == FromISO(startIso)
        e == FromISO(endIso)
    IN  IF IsValidTime(s) /\ IsValidTime(e) /\ e >= s
        THEN <<[start |-> s, end |-> e]>>
        ELSE <<>>

\* Interval.contains(dt): start <= dt < end.
Contains(iv, dt) == iv.start <= dt /\ dt < iv.end

\* isInsideMaintenance
IsInsideMaintenance(wc, dt) ==
    \E k \in 1..Len(wc.maintenanceWindows) :
        LET iv == SafeIntervalFromISO(wc.maintenanceWindows[k].startDate,
                                      wc.maintenanceWindows[k].endDate)
        IN  iv # <<>> /\ Contains(iv[1], dt)

\* skipMaintenanceStartingBeforeOrAt: the end of the first window, in list
\* order, that holds the cursor; else the cursor.
RECURSIVE SkipMaintenanceFrom(_, _, _)
SkipMaintenanceFrom(mwList, k, cursor) ==
    IF k > Len(mwList) THEN cursor
    ELSE LET iv == SafeIntervalFromISO(mwList[k].startDate, mwList[k].endDate) IN
         IF iv # <<>>
            /\ (Contains(iv[1], cursor) \/ (iv[1].start <= cursor /\ iv[1].end > cursor))
         THEN iv[1].end
         ELSE SkipMaintenanceFrom(mwList, k + 1, cursor)

SkipMaintenanceStartingBeforeOrAt(wc, cursor) ==
    SkipMaintenanceFrom(wc.maintenanceWindows, 1, cursor)

----------------------------------------------------------------------------
(* ConstraintChecker: shift helpers *)

\* startOf("day") of a UTC DateTime.
StartOfDay(t) == (t \div SecondsPerDay) * SecondsPerDay

\* dateUTC.weekday % 7 (0 = Sunday); second 0 is a Sunday 00:00.
DayOfWeek(t) == (t \div SecondsPerDay) % DaysPerWeek

\* Mutant: a shift of the weekday gets its interval whatever its hours.
RECURSIVE ShiftIntervalsFromKeepInverted(_, _, _)
ShiftIntervalsFromKeepInverted(shifts, k, date) ==
    IF k > Len(shifts) THEN <<>>
    ELSE LET s == shifts[k]
             start == StartOfDay(date) + s.startHour * SecondsPerHour
             end == StartOfDay(date) + s.endHour * SecondsPerHour
             rest == ShiftIntervalsFromKeepInverted(shifts, k + 1, date)
         IN  IF s.dayOfWeek # DayOfWeek(date)
             THEN rest
             ELSE <<[start |-> start, end |-> end]>> \o rest

\* buildShiftIntervalsForDate, the loop: one interval per shift of that weekday
\* whose end is after its start (hours are within 0..23, so the DateTimes are
\* valid).
RECURSIVE ShiftIntervalsFrom(_, _, _)
ShiftIntervalsFrom(shifts, k, date) ==
    IF k > Len(shifts) THEN <<>>
    ELSE LET s == shifts[k]
             start == StartOfDay(date) + s.startHour * SecondsPerHour
             end == StartOfDay(date) + s.endHour * SecondsPerHour
             rest == ShiftIntervalsFrom(shifts, k + 1, date)
         IN  IF s.dayOfWeek # DayOfWeek(date) \/ end <= start
             THEN rest
             ELSE <<[start |-> start, end |-> end]>> \o rest

\* buildShiftIntervalsForDate: the intervals of the date, sorted by start.
BuildShiftIntervalsForDate(shifts, date) ==
    SortByStart(ShiftIntervalsFrom(shifts, 1, date))

\* Mutant: a shift that holds the cursor is not recognised; only one that
\* starts at or after it is.
RECURSIVE ScanShiftIntervalsNoContains(_, _, _)
ScanShiftIntervalsNoContains(intervals, k, cursor) ==
    IF k > Len(intervals) THEN <<>>
    ELSE IF intervals[k].start >= cursor THEN <<intervals[k].start>>
    ELSE ScanShiftIntervalsNoContains(intervals, k + 1, cursor)

\* moveToNextShiftIfNeeded, inner loop over one day's intervals: <<>> when no
\* interval decides, else the value returned.
RECURSIVE ScanShiftIntervals(_, _, _)
ScanShiftIntervals(intervals, k, cursor) ==
    IF k > Len(intervals) THEN <<>>
    ELSE IF Contains(intervals[k], cursor) THEN <<cursor>>
    ELSE IF intervals[k].start >= cursor THEN <<intervals[k].start>>
    ELSE ScanShiftIntervals(intervals, k + 1, cursor)

\* moveToNextShiftIfNeeded, outer loop over the lookahead days.
RECURSIVE MoveToNextShiftFrom(_, _, _)
MoveToNextShiftFrom(wc, cursor, d) ==
    IF d >= ShiftLookaheadDays THEN cursor
    ELSE LET day == cursor + d * SecondsPerDay
             hit == ScanShiftIntervals(BuildShiftIntervalsForDate(wc.shifts, day), 1, cursor)
         IN  IF hit # <<>> THEN hit[1] ELSE MoveToNextShiftFrom(wc, cursor, d + 1)

MoveToNextShiftIfNeeded(wc, cursor) == MoveToNextShiftFrom(wc, cursor, 0)

----------------------------------------------------------------------------
(* ConstraintChecker: working minutes across shifts *)

\* addWorkingMinutesConsideringShifts: the shift of the cursor's day that holds
\* the cursor or starts after it (first in start order), <<>> if none.
RECURSIVE CurrentShiftFrom(_, _, _)
CurrentShiftFrom(intervals, k, cursor) ==
    IF k > Len(intervals) THEN <<>>
    ELSE IF Contains(intervals[k], cursor) \/ intervals[k].start > cursor
         THEN <<intervals[k]>>
         ELSE CurrentShiftFrom(intervals, k + 1, cursor)

\* addWorkingMinutesConsideringShifts: availableUntil, the shift end clipped by
\* each maintenance window (in list order) that starts after the cursor and
\* before the current clip.
RECURSIVE AvailableUntilFrom(_, _, _, _)
AvailableUntilFrom(mwList, k, cursor, availableUntil) ==
    IF k > Len(mwList) THEN availableUntil
    ELSE LET iv == SafeIntervalFromISO(mwList[k].startDate, mwList[k].endDate) IN
         IF iv # <<>> /\ iv[1].start > cursor /\ iv[1].start < availableUntil
         THEN AvailableUntilFrom(mwList, k + 1, cursor, iv[1].start)
         ELSE AvailableUntilFrom(mwList, k + 1, cursor, availableUntil)

Min(a, b) == IF a <= b THEN a ELSE b

Max(a, b) == IF a >= b THEN a ELSE b

\* addWorkingMinutesConsideringShifts, one pass through the body of the while
\* loop from the state st = (cursor, remaining, daysScanned); the state is
\* returned as it is once the loop condition is false.
AddWorkingMinutesStep(wc, st) ==
    IF ~(st.remaining > 0 /\ st.daysScanned < MaxDays) THEN st
    ELSE
      LET cursor == st.cursor
          scanned == st.daysScanned + 1
          currentShift ==
              CurrentShiftFrom(BuildShiftIntervalsForDate(wc.shifts, cursor), 1, cursor)
      IN
      IF currentShift = <<>>
      THEN [st EXCEPT !.cursor = StartOfDay(cursor + SecondsPerDay), !.daysScanned = scanned]
      ELSE
        LET c1 == IF cursor < currentShift[1].start THEN currentShift[1].start ELSE cursor
        IN
        IF IsInsideMaintenance(wc, c1)
        THEN [st EXCEPT !.cursor = SkipMaintenanceStartingBeforeOrAt(wc, c1),
                        !.daysScanned = scanned]
        ELSE
          LET availableUntil ==
                  AvailableUntilFrom(wc.maintenanceWindows, 1, c1, currentShift[1].end)
              availableMinutes == Max(0, FloorMinutes(availableUntil - c1))
          IN
          IF availableMinutes <= 0
          THEN [st EXCEPT !.cursor = currentShift[1].end, !.daysScanned = scanned]
          ELSE
            LET consume == Min(availableMinutes, st.remaining)
                c2 == PlusMinutes(c1, consume)
            IN  [cursor |-> IF IsInsideMaintenance(wc, c2)
                            THEN SkipMaintenanceStartingBeforeOrAt(wc, c2)
                            ELSE c2,
                 remaining |-> st.remaining - consume,
                 daysScanned |-> scanned]

\* addWorkingMinutesConsideringShifts, the while loop: n passes of the body,
\* taken in two halves (the loop runs at most MaxDays times, as each pass
\* counts one in daysScanned).
RECURSIVE AddWorkingMinutesPasses(_, _, _)
AddWorkingMinutesPasses(wc, st, n) ==
    IF n = 0 \/ ~(st.remaining > 0 /\ st.daysScanned < MaxDays) THEN st
    ELSE IF n = 1 THEN AddWorkingMinutesStep(wc, st)
    ELSE AddWorkingMinutesPasses(wc, AddWorkingMinutesPasses(wc, st, n \div 2),
                                 n - (n \div 2))

\* addWorkingMinutesConsideringShifts(start, durationMinutes, wc): the instant
\* the minutes are consumed, or the error thrown.
AddWorkingMinutesConsideringShifts(start, durationMinutes, wc) ==
    LET st == AddWorkingMinutesPasses(
                  wc, [cursor |-> start, remaining |-> durationMinutes, daysScanned |-> 0],
                  MaxDays)
    IN  IF st.remaining > 0
        THEN [ok |-> FALSE, end |-> st.cursor, error |-> "UnschedulableDuration"]
        ELSE [ok |-> TRUE, end |-> st.cursor, error |-> "none"]

----------------------------------------------------------------------------
(* ConstraintChecker: findEarliestFeasibleSlot *)

\* workCentersById.get(id): <<>> for undefined.  The Map is built from the
\* array, so a later document of the same id replaces an earlier one.
RECURSIVE WorkCenterByIdFrom(_, _, _)
WorkCenterByIdFrom(wcs, k, id) ==
    IF k < 1 THEN <<>>
    ELSE IF wcs[k].docId = id THEN <<wcs[k]>>
    ELSE WorkCenterByIdFrom(wcs, k - 1, id)

WorkCenterById(wcs, id) == WorkCenterByIdFrom(wcs, Len(wcs), id)

Failure(err) ==
    [ok |-> FALSE, start |-> InvalidTime, end |-> InvalidTime, error |-> err,
     collided |-> <<>>]

\* The cursor for the retry after a collision: the colliding slot's end plus
\* one minute.
RetryCursor(overlapping) == PlusMinutes(overlapping.end, RetryGapMinutes)

\* findEarliestFeasibleSlot, the while loop.  hit records the booked slots
\* the candidates collided with (history, not program state).
RECURSIVE FindSlotLoop(_, _, _, _, _, _, _)
FindSlotLoop(sched, wc, durationMinutes, cursor, deadline, loopCount, hit) ==
    IF ~(cursor <= deadline) THEN Failure("NoFeasibleSlot")
    ELSE IF loopCount + 1 > MaxLoopCount THEN Failure("InfiniteLoopProtection")
    ELSE
      LET c1 == MoveToNextShiftIfNeeded(wc, cursor)
          c2 == SkipMaintenanceStartingBeforeOrAt(wc, c1)
          candidate == AddWorkingMinutesConsideringShifts(c2, durationMinutes, wc)
      IN
      IF ~candidate.ok THEN Failure(candidate.error)
      ELSE
        LET overlapping == FindOverlappingSlot(sched, 1, wc.docId, c2, candidate.end) IN
        IF overlapping = <<>>
        THEN [ok |-> TRUE, start |-> c2, end |-> candidate.end, error |-> "none",
              collided |-> hit]
        ELSE FindSlotLoop(sched, wc, durationMinutes, RetryCursor(overlapping[1]),
                          deadline, loopCount + 1, Append(hit, overlapping[1]))

\* findEarliestFeasibleSlot(workCenterDocId, earliestPossibleStart,
\* durationMinutes) with the default maxSearchDays: the slot, or the error the
\* returned promise is rejected with.
FindEarliestFeasibleSlot(wcs, sched, workCenterDocId, earliestPossibleStart, durationMinutes) ==
    LET wc == WorkCenterById(wcs, workCenterDocId) IN
    IF wc = <<>> THEN Failure("WorkCenterNotFound")
    ELSE IF ~IsValidTime(earliestPossibleStart) THEN Failure("InvalidEarliestPossibleStart")
    ELSE IF durationMinutes <= 0 THEN Failure("InvalidDurationMinutes")
    ELSE FindSlotLoop(sched, wc[1], durationMinutes, earliestPossibleStart,
                      earliestPossibleStart + MaxSearchDays * SecondsPerDay, 0, <<>>)

----------------------------------------------------------------------------
(* ReflowService.computeReflow: helpers *)

\* woById.get(id): the Map is built from the array, so the last document of an
\* id is the one found.
RECURSIVE WoByIdFrom(_, _, _)
WoByIdFrom(wos, k, id) ==
    IF k < 1 THEN <<>>
    ELSE IF wos[k].docId = id THEN <<wos[k]>>
    ELSE WoByIdFrom(wos, k - 1, id)

WoById(wos, id) == WoByIdFrom(wos, Len(wos), id)

\* results.find((r) => r.workOrderDocId === depId): the first match, <<>> if none.
RECURSIVE FindResultFrom(_, _, _)
FindResultFrom(res, k, depId) ==
    IF k > Len(res) THEN <<>>
    ELSE IF res[k].workOrderDocId = depId THEN <<res[k]>>
    ELSE FindResultFrom(res, k + 1, depId)

FindResult(res, depId) == FindResultFrom(res, 1, depId)

\* Mutant: the dependency's start is read where its end belongs.
RECURSIVE EarliestStartFromDepStart(_, _, _, _)
EarliestStartFromDepStart(deps, j, res, earliestStart) ==
    IF j > Len(deps) THEN earliestStart
    ELSE LET depResult == FindResult(res, deps[j]) IN
         IF depResult # <<>> /\ After(FromISO(depResult[1].startDate), earliestStart)
         THEN EarliestStartFromDepStart(deps, j + 1, res, FromISO(depResult[1].startDate))
         ELSE EarliestStartFromDepStart(deps, j + 1, res, earliestStart)

\* Mutant: a dependency's end replaces the earliest start whenever it parses,
\* later or not.
RECURSIVE EarliestStartFromUnconditional(_, _, _, _)
EarliestStartFromUnconditional(deps, j, res, earliestStart) ==
    IF j > Len(deps) THEN earliestStart
    ELSE LET depResult == FindResult(res, deps[j]) IN
         IF depResult # <<>> /\ IsValidTime(FromISO(depResult[1].endDate))
         THEN EarliestStartFromUnconditional(deps, j + 1, res,
                                             FromISO(depResult[1].endDate))
         ELSE EarliestStartFromUnconditional(deps, j + 1, res, earliestStart)

\* The loop over dependsOnWorkOrderIds: a dependency's end replaces the earliest
\* start when it is later.
RECURSIVE EarliestStartFrom(_, _, _, _)
EarliestStartFrom(deps, j, res, earliestStart) ==
    IF j > Len(deps) THEN earliestStart
    ELSE LET depResult == FindResult(res, deps[j]) IN
         IF depResult # <<>> /\ After(FromISO(depResult[1].endDate), earliestStart)
         THEN EarliestStartFrom(deps, j + 1, res, FromISO(depResult[1].endDate))
         ELSE EarliestStartFrom(deps, j + 1, res, earliestStart)

\* earliestStart of a work order given the results produced so far.
EarliestStart(wo, res) ==
    EarliestStartFrom(wo.dependsOnWorkOrderIds, 1, res, FromISO(wo.startDate))

\* Mutant: no work order is taken for maintenance.
IsMaintenanceNever(wo) == FALSE

\* if (wo.data.isMaintenance): the order is reported and skipped.
IsMaintenance(wo) == wo.isMaintenance

\* The result pushed for a maintenance work order.
MaintenanceResult(wo) ==
    [workOrderDocId |-> wo.docId, workCenterDocId |-> wo.workCenterId,
     startDate |-> wo.startDate, endDate |-> wo.endDate,
     wasDelayed |-> FALSE, delayMinutes |-> <<>>, delayReason |-> <<>>]

\* Mutant: delayMinutes is reported whether or not the order was delayed.
ScheduledResultAlwaysMinutes(wo, slot) ==
    LET plannedStart == FromISO(wo.startDate)
        wasDelayed == After(slot.start, plannedStart)
    IN  [workOrderDocId |-> wo.docId, workCenterDocId |-> wo.workCenterId,
         startDate |-> ToISOOr(slot.start, wo.startDate),
         endDate |-> ToISOOr(slot.end, wo.endDate),
         wasDelayed |-> wasDelayed,
         delayMinutes |-> <<RoundMinutes(slot.start - plannedStart)>>,
         delayReason |-> IF wasDelayed THEN <<"Resource/shift constraints">> ELSE <<>>]

\* The result pushed for a work order scheduled at slot.
ScheduledResult(wo, slot) ==
    LET plannedStart == FromISO(wo.startDate)
        wasDelayed == After(slot.start, plannedStart)
        delayMinutes == IF wasDelayed THEN RoundMinutes(slot.start - plannedStart) ELSE 0
    IN  [workOrderDocId |-> wo.docId, workCenterDocId |-> wo.workCenterId,
         startDate |-> ToISOOr(slot.start, wo.startDate),
         endDate |-> ToISOOr(slot.end, wo.endDate),
         wasDelayed |-> wasDelayed,
         delayMinutes |-> IF wasDelayed THEN <<delayMinutes>> ELSE <<>>,
         delayReason |-> IF wasDelayed THEN <<"Resource/shift constraints">> ELSE <<>>]

\* Mutant: the placeholder is not marked delayed and carries no reason.
FailedResultUnmarked(wo, err) ==
    [workOrderDocId |-> wo.docId, workCenterDocId |-> wo.workCenterId,
     startDate |-> wo.startDate, endDate |-> wo.endDate,
     wasDelayed |-> FALSE, delayMinutes |-> <<>>, delayReason |-> <<>>]

\* The placeholder result pushed when the search failed with err.
FailedResult(wo, err) ==
    [workOrderDocId |-> wo.docId, workCenterDocId |-> wo.workCenterId,
     startDate |-> wo.startDate, endDate |-> wo.endDate,
     wasDelayed |-> TRUE, delayMinutes |-> <<>>,
     delayReason |-> <<"Scheduling failed: " \o err>>]

\* Mutant: the catch block logs the error and pushes nothing.
PushFailedResultLogOnly(res, wo, err) == res

\* The catch block: results.push of the placeholder.
PushFailedResult(res, wo, err) == Append(res, FailedResult(wo, err))

\* The slot handed to pushScheduledSlot.
SlotOf(wo, slot) ==
    [workOrderDocId |-> wo.docId, workCenterDocId |-> wo.workCenterId,
     start |-> slot.start, end |-> slot.end]

NoPending == Failure("none")

\* The work order of the current loop iteration.
CurrentWo == WoById(workOrders, orderedWorkOrderIds[idx])[1]

\* The locals of a second computeReflow call on the same service, before the
\* call: its position, its sorted ids, loop index, results array, the search
\* outcome it holds across the await, the structural error it throws, and
\* (history) whether it was called after the first call had returned.
NoOtherCall ==
    [pc |-> "pending", orderedWorkOrderIds |-> <<>>, idx |-> 0, results |-> <<>>,
     pending |-> NoPending, error |-> "none", afterFirst |-> FALSE]

\* The work order of the second call's current loop iteration.
OtherCurrentWo == WoById(workOrders, other.orderedWorkOrderIds[other.idx])[1]

\* A call at this position is not running: it has not begun, it waits at the
\* await, or it is over.  JavaScript runs one call at a time up to its next
\* await.
Suspended(position) == position \in {"pending", "awaiting", "done", "failed"}

----------------------------------------------------------------------------
(* Input documents *)

Sunday == 0
Monday == 1
Tuesday == 2

TimeAt(day, hour, minute) ==
    ((day * HoursPerDay + hour) * MinutesPerHour + minute) * SecondsPerMinute

\* A timestamp with a seconds part.
TimeAtSecond(day, hour, minute, second) == TimeAt(day, hour, minute) + second

\* Work centers: "wc1" works Monday and Tuesday 08:00-10:00 with maintenance on
\* Tuesday 08:00-09:00; "wc2" has only an inverted and a zero-length shift;
\* "wc3" works one hour a week, Monday 08:00-09:00, and declares an inverted
\* shift (Monday 12:00-11:00) besides; "wc4" works Monday and
\* Tuesday 08:00-10:00 and has no maintenance; "wc5" works Monday 08:00-10:00
\* with a maintenance window that outlasts the shift (09:00-11:00); "wc6"
\* works Monday 08:00-12:00 with two maintenance windows that overlap
\* (08:00-09:00 and 08:30-09:30); "wc7" works Monday 08:00-10:00 and is under
\* maintenance for five weeks from Monday 08:00; "wc8" declares no shift.
WorkCenterDocs ==
    << [docId |-> "wc1",
        shifts |-> << [dayOfWeek |-> Monday, startHour |-> 8, endHour |-> 10],
                      [dayOfWeek |-> Tuesday, startHour |-> 8, endHour |-> 10] >>,
        maintenanceWindows |->
            << [startDate |-> ToISO(TimeAt(Tuesday, 8, 0)),
                endDate |-> ToISO(TimeAt(Tuesday, 9, 0))] >>],
       [docId |-> "wc2",
        shifts |-> << [dayOfWeek |-> Monday, startHour |-> 10, endHour |-> 8],
                      [dayOfWeek |-> Tuesday, startHour |-> 9, endHour |-> 9] >>,
        maintenanceWindows |-> <<>>],
       [docId |-> "wc3",
        shifts |-> << [dayOfWeek |-> Monday, startHour |-> 8, endHour |-> 9],
                      [dayOfWeek |-> Monday, startHour |-> 12, endHour |-> 11] >>,
        maintenanceWindows |-> <<>>],
       [docId |-> "wc4",
        shifts |-> << [dayOfWeek |-> Monday, startHour |-> 8, endHour |-> 10],
                      [dayOfWeek |-> Tuesday, startHour |-> 8, endHour |-> 10] >>,
        maintenanceWindows |-> <<>>],
       [docId |-> "wc5",
        shifts |-> << [dayOfWeek |-> Monday, startHour |-> 8, endHour |-> 10] >>,
        maintenanceWindows |->
            << [startDate |-> ToISO(TimeAt(Monday, 9, 0)),
                endDate |-> ToISO(TimeAt(Monday, 11, 0))] >>],
       [docId |-> "wc6",
        shifts |-> << [dayOfWeek |-> Monday, startHour |-> 8, endHour |-> 12] >>,
        maintenanceWindows |->
            << [startDate |-> ToISO(TimeAt(Monday, 8, 0)),
                endDate |-> ToISO(TimeAt(Monday, 9, 0))],
               [startDate |-> ToISO(TimeAt(Monday, 8, 30)),
                endDate |-> ToISO(TimeAt(Monday, 9, 30))] >>],
       [docId |-> "wc7",
        shifts |-> << [dayOfWeek |-> Monday, startHour |-> 8, endHour |-> 10] >>,
        maintenanceWindows |->
            << [startDate |-> ToISO(TimeAt(Monday, 8, 0)),
                endDate |-> ToISO(TimeAt(Monday + 5 * DaysPerWeek, 8, 0))] >>],
       [docId |-> "wc8", shifts |-> <<>>, maintenanceWindows |-> <<>>] >>

\* The work order fields other than the id and the dependencies.  endDate is
\* startDate plus durationMinutes (unparsable when startDate is).
OrderKind(wc, start, duration, maintenance) ==
    [workCenterId |-> wc,
     startDate |-> IF IsValidTime(start) THEN ToISO(start) ELSE InvalidISO,
     endDate |-> IF IsValidTime(start) THEN ToISO(PlusMinutes(start, duration)) ELSE InvalidISO,
     durationMinutes |-> duration,
     isMaintenance |-> maintenance]

OrderKinds ==
    { OrderKind("wc1", TimeAt(Monday, 7, 0), 60, FALSE),
      OrderKind("wc1", TimeAt(Monday, 8, 0), 120, FALSE),
      OrderKind("wc1", TimeAt(Monday, 8, 0), 60, TRUE),
      OrderKind("wc3", TimeAt(Monday, 8, 0), 360, FALSE),
      OrderKind("wc2", TimeAt(Monday, 8, 0), 60, FALSE),
      OrderKind("wc9", TimeAt(Monday, 8, 0), 60, FALSE),
      OrderKind("wc1", InvalidTime, 60, FALSE),
      OrderKind("wc1", TimeAt(Monday, 8, 0), 0, FALSE) }

\* Work orders of the delay scenarios: a planned start twenty seconds before
\* the shift opens; a job longer than the rest of its shift; a job that fits
\* its shift; the same window on another work center; a planned start inside a
\* maintenance window; an unknown work center; a maintenance work order.
ScenarioKinds ==
    { OrderKind("wc4", TimeAtSecond(Monday, 7, 59, 40), 60, FALSE),
      OrderKind("wc4", TimeAt(Monday, 9, 0), 120, FALSE),
      OrderKind("wc4", TimeAt(Monday, 8, 0), 60, FALSE),
      OrderKind("wc1", TimeAt(Monday, 8, 0), 60, FALSE),
      OrderKind("wc1", TimeAt(Tuesday, 8, 0), 60, FALSE),
      OrderKind("wc9", TimeAt(Monday, 8, 0), 60, FALSE),
      OrderKind("wc4", TimeAt(Monday, 8, 0), 60, TRUE) }

\* Arguments of findEarliestFeasibleSlot called on its own, as the fields of a
\* work order: each work center with a usable shift, starts before, at the
\* opening of, and inside the Monday shift (one with a seconds part) and at the
\* opening of the Tuesday shift, and durations of half an hour to two hours.
\* Work orders of the shift scenarios: on a work center whose shifts are all
\* invalid; on one that declares none; on one with an inverted shift beside a
\* valid one, planned inside the valid shift and planned inside the hours the
\* inverted shift names; a maintenance work order on the first.
ShiftKinds ==
    { OrderKind("wc2", TimeAt(Monday, 8, 0), 60, FALSE),
      OrderKind("wc8", TimeAt(Monday, 8, 0), 60, FALSE),
      OrderKind("wc3", TimeAt(Monday, 8, 0), 60, FALSE),
      OrderKind("wc3", TimeAt(Monday, 11, 30), 30, FALSE),
      OrderKind("wc2", TimeAt(Monday, 8, 0), 60, TRUE) }

SearchStarts ==
    { TimeAt(Monday, 7, 0), TimeAt(Monday, 8, 0), TimeAtSecond(Monday, 8, 0, 30),
      TimeAt(Monday, 8, 15), TimeAt(Monday, 9, 0), TimeAt(Monday, 9, 30),
      TimeAt(Tuesday, 8, 0) }

SearchDurations == {30, 60, 90, 120}

SearchKinds ==
    { OrderKind(wc, start, duration, FALSE) :
          wc \in {"wc1", "wc3", "wc4", "wc5", "wc6", "wc7"},
          start \in SearchStarts, duration \in SearchDurations }

WorkOrderDoc(id, kind, deps) ==
    [docId |-> id,
     workCenterId |-> kind.workCenterId,
     startDate |-> kind.startDate,
     endDate |-> kind.endDate,
     durationMinutes |-> kind.durationMinutes,
     isMaintenance |-> kind.isMaintenance,
     dependsOnWorkOrderIds |-> deps]

\* Dependency lists of the scheduling runs over n work orders: none, one id
\* (n + 1 is the id of no work order), or the first two ids.
DepLists(n) ==
    {<<>>} \cup {<<a>> : a \in 1..(n + 1)}
           \cup (IF n >= 2 THEN {<<1, 2>>} ELSE {})

\* Dependency lists of the graph runs: none, one id, two ids of work orders in
\* any order and with repetition, or the id of a work order followed by the id
\* of none.
GraphDepLists(n) ==
    {<<>>} \cup {<<a>> : a \in 1..(n + 1)}
           \cup {<<a, b>> : a \in 1..n, b \in 1..(n + 1)}

\* The work order arrays of n documents with ids 1..n in input order.
WorkOrderArrays(n, kinds, depLists) ==
    { [i \in 1..n |-> WorkOrderDoc(i, k[i], d[i])] :
          k \in [1..n -> kinds], d \in [1..n -> depLists] }

\* The caller's existing schedule: none, or one slot booked on "wc1" for
\* another work order (id 0) on Monday 08:00-08:30.
ExistingSchedules ==
    { <<>>,
      << [workOrderDocId |-> 0, workCenterDocId |-> "wc1",
          start |-> TimeAt(Monday, 8, 0), end |-> TimeAt(Monday, 8, 30)] >> }

\* The caller's existing schedule of the delay scenarios: none; one slot
\* booked on "wc4" on Monday 08:30-08:45; or two slots on "wc4" that intersect
\* each other, listed latest first, one of them starting before the shift opens.
ScenarioExistingSchedules ==
    { <<>>,
      << [workOrderDocId |-> 0, workCenterDocId |-> "wc4",
          start |-> TimeAt(Monday, 8, 30), end |-> TimeAt(Monday, 8, 45)] >>,
      << [workOrderDocId |-> 0, workCenterDocId |-> "wc4",
          start |-> TimeAt(Monday, 8, 30), end |-> TimeAt(Monday, 9, 30)],
         [workOrderDocId |-> 0, workCenterDocId |-> "wc4",
          start |-> TimeAt(Monday, 7, 0), end |-> TimeAt(Monday, 8, 45)] >> }

----------------------------------------------------------------------------
(* Initial states: the service (or the graph's input) as constructed *)

InitRest ==
    /\ workCenters = WorkCenterDocs
    /\ schedule = NewSchedule(existingSchedule)
    /\ adjList = EmptyMap
    /\ inDegree = EmptyMap
    /\ orderedWorkOrderIds = <<>>
    /\ results = <<>>
    /\ pc = "pending"
    /\ idx = 0
    /\ pending = NoPending
    /\ error = "none"
    /\ collided = {}
    /\ calls = 0
    /\ runs = 1
    /\ prevResults = <<>>
    /\ prevOutcome = "none"
    /\ other = NoOtherCall

Init ==
    /\ \E n \in 0..MaxOrders : workOrders \in WorkOrderArrays(n, OrderKinds, DepLists(n))
    /\ existingSchedule \in ExistingSchedules
    /\ InitRest

InitNoLedger ==
    /\ \E n \in 0..MaxOrders : workOrders \in WorkOrderArrays(n, OrderKinds, DepLists(n))
    /\ existingSchedule = <<>>
    /\ InitRest

InitScenario ==
    /\ \E n \in 0..MaxOrders :
           workOrders \in WorkOrderArrays(n, ScenarioKinds, DepLists(n))
    /\ existingSchedule \in ScenarioExistingSchedules
    /\ InitRest

InitShifts ==
    /\ \E n \in 0..MaxOrders :
           workOrders \in WorkOrderArrays(n, ShiftKinds, {<<>>, <<1>>})
    /\ existingSchedule = <<>>
    /\ InitRest

\* The ledger of a search on its own: empty, or one slot booked on the work
\* center searched, Monday 08:00-09:00.
InitSearch ==
    /\ workOrders \in WorkOrderArrays(1, SearchKinds, {<<>>})
    /\ existingSchedule \in
           { <<>>,
             << [workOrderDocId |-> 0, workCenterDocId |-> workOrders[1].workCenterId,
                 start |-> TimeAt(Monday, 8, 0), end |-> TimeAt(Monday, 9, 0)] >> }
    /\ InitRest

InitGraph ==
    /\ \E n \in 0..MaxNodes :
           workOrders \in WorkOrderArrays(n, {OrderKind("wc1", TimeAt(Monday, 8, 0), 60, FALSE)},
                                          GraphDepLists(n))
    /\ existingSchedule = <<>>
    /\ InitRest

----------------------------------------------------------------------------
(* DependencyGraph used on its own *)

\* new DependencyGraph(workOrders)
NewDependencyGraph ==
    /\ pc = "pending"
    /\ LET g == BuildGraph(workOrders) IN
       IF g.error # "none"
       THEN /\ pc' = "failed"
            /\ error' = g.error
            /\ UNCHANGED <<adjList, inDegree>>
       ELSE /\ pc' = "built"
            /\ adjList' = g.adjList
            /\ inDegree' = g.inDegree
            /\ UNCHANGED error
    /\ UNCHANGED <<workOrders, workCenters, existingSchedule, schedule,
                   orderedWorkOrderIds, results, idx, pending, collided, calls, runs,
                   prevResults, prevOutcome, other>>

\* graph.getTopologicalOrder()
GetTopologicalOrder ==
    /\ pc = "built"
    /\ calls < MaxCalls
    /\ LET t == TopologicalOrder(workOrders, adjList, inDegree) IN
       /\ inDegree' = t.inDegree
       /\ orderedWorkOrderIds' = t.sorted
       /\ error' = t.error
    /\ calls' = calls + 1
    /\ UNCHANGED <<workOrders, workCenters, existingSchedule, schedule, adjList,
                   results, pc, idx, pending, collided, runs, prevResults, prevOutcome, other>>

NextGraph == NewDependencyGraph \/ GetTopologicalOrder

SpecGraph == InitGraph /\ [][NextGraph]_vars

----------------------------------------------------------------------------
(* ReflowService.computeReflow *)

\* computeReflow up to the loop: build the graph and take the order; either
\* throws out of computeReflow.
StartReflow ==
    /\ pc = "pending"
    /\ Suspended(other.pc)
    /\ LET g == BuildGraph(workOrders)
           t == TopologicalOrder(workOrders, g.adjList, g.inDegree)
       IN  IF g.error # "none"
           THEN /\ pc' = "failed"
                /\ error' = g.error
                /\ UNCHANGED <<adjList, inDegree, orderedWorkOrderIds, idx, calls>>
           ELSE /\ adjList' = g.adjList
                /\ inDegree' = t.inDegree
                /\ calls' = calls + 1
                /\ IF t.error # "none"
                   THEN /\ pc' = "failed"
                        /\ error' = t.error
                        /\ UNCHANGED <<orderedWorkOrderIds, idx>>
                   ELSE /\ pc' = "scheduling"
                        /\ orderedWorkOrderIds' = t.sorted
                        /\ idx' = 1
                        /\ UNCHANGED error
    /\ UNCHANGED <<workOrders, workCenters, existingSchedule, schedule, results, pending,
                   collided, runs, prevResults, prevOutcome, other>>

\* Loop iteration on a maintenance work order: reported as planned, not booked.
EmitMaintenance ==
    /\ pc = "scheduling"
    /\ Suspended(other.pc)
    /\ idx <= Len(orderedWorkOrderIds)
    /\ IsMaintenance(CurrentWo)
    /\ results' = Append(results, MaintenanceResult(CurrentWo))
    /\ idx' = idx + 1
    /\ UNCHANGED <<workOrders, workCenters, existingSchedule, schedule, adjList, inDegree,
                   orderedWorkOrderIds, pc, pending, error, collided, calls, runs,
                   prevResults, prevOutcome, other>>

\* Loop iteration on any other work order, up to the await: the earliest start
\* from the dependencies' results and the search.
FindSlot ==
    /\ pc = "scheduling"
    /\ Suspended(other.pc)
    /\ idx <= Len(orderedWorkOrderIds)
    /\ ~IsMaintenance(CurrentWo)
    /\ pending' = FindEarliestFeasibleSlot(workCenters, schedule, CurrentWo.workCenterId,
                                           EarliestStart(CurrentWo, results),
                                           CurrentWo.durationMinutes)
    /\ collided' = collided \cup
           {[workOrderDocId |-> CurrentWo.docId, slot |-> pending'.collided[k]] :
                k \in 1..Len(pending'.collided)}
    /\ pc' = "awaiting"
    /\ UNCHANGED <<workOrders, workCenters, existingSchedule, schedule, adjList, inDegree,
                   orderedWorkOrderIds, results, idx, error, calls, runs, prevResults,
                   prevOutcome, other>>

\* After the await, the promise fulfilled: book the slot and push the result.
CommitSlot ==
    /\ pc = "awaiting"
    /\ Suspended(other.pc)
    /\ pending.ok
    /\ schedule' = PushScheduledSlot(schedule, SlotOf(CurrentWo, pending))
    /\ existingSchedule' = ExistingScheduleAfterPush(existingSchedule, SlotOf(CurrentWo, pending))
    /\ results' = Append(results, ScheduledResult(CurrentWo, pending))
    /\ pending' = NoPending
    /\ idx' = idx + 1
    /\ pc' = "scheduling"
    /\ UNCHANGED <<workOrders, workCenters, adjList, inDegree, orderedWorkOrderIds, error,
                   collided, calls, runs, prevResults, prevOutcome, other>>

\* Mutant: the catch block pushes the placeholder result and ends the run.
CatchFailureStopRun ==
    /\ pc = "awaiting"
    /\ Suspended(other.pc)
    /\ ~pending.ok
    /\ results' = PushFailedResult(results, CurrentWo, pending.error)
    /\ pending' = NoPending
    /\ pc' = "done"
    /\ UNCHANGED <<workOrders, workCenters, existingSchedule, schedule, adjList, inDegree,
                   orderedWorkOrderIds, idx, error, collided, calls, runs, prevResults,
                   prevOutcome, other>>

\* Mutant: the catch block swallows the error and the loop tries the same work
\* order again.
CatchFailureRetrySameOrder ==
    /\ pc = "awaiting"
    /\ Suspended(other.pc)
    /\ ~pending.ok
    /\ pending' = NoPending
    /\ pc' = "scheduling"
    /\ UNCHANGED <<workOrders, workCenters, existingSchedule, schedule, adjList, inDegree,
                   orderedWorkOrderIds, results, idx, error, collided, calls, runs,
                   prevResults, prevOutcome, other>>

\* After the await, the promise rejected: the catch block pushes the
\* placeholder result.
CatchFailure ==
    /\ pc = "awaiting"
    /\ Suspended(other.pc)
    /\ ~pending.ok
    /\ results' = PushFailedResult(results, CurrentWo, pending.error)
    /\ pending' = NoPending
    /\ idx' = idx + 1
    /\ pc' = "scheduling"
    /\ UNCHANGED <<workOrders, workCenters, existingSchedule, schedule, adjList, inDegree,
                   orderedWorkOrderIds, error, collided, calls, runs, prevResults,
                   prevOutcome, other>>

\* The loop is over: return results.
ReturnResults ==
    /\ pc = "scheduling"
    /\ Suspended(other.pc)
    /\ idx > Len(orderedWorkOrderIds)
    /\ pc' = "done"
    /\ UNCHANGED <<workOrders, workCenters, existingSchedule, schedule, adjList, inDegree,
                   orderedWorkOrderIds, results, idx, pending, error, collided, calls,
                   runs, prevResults, prevOutcome, other>>

Next ==
    \/ StartReflow
    \/ EmitMaintenance
    \/ FindSlot
    \/ CommitSlot
    \/ CatchFailure
    \/ ReturnResults

Spec == Init /\ [][Next]_vars

\* The run has ended: it returned its results or threw a structural error.
RunEnded == pc \in {"done", "failed"}

\* The run has a step to take: it has not ended (each position before the end
\* has its action: StartReflow when pending; EmitMaintenance, FindSlot or
\* ReturnResults when scheduling; CommitSlot or CatchFailure when awaiting),
\* and no other call is running.
RunCanStep == ~RunEnded /\ Suspended(other.pc)

\* A step of the run, seen on its control position alone: every step of Next
\* changes pc or idx.
Progress ==
    /\ RunCanStep
    /\ pc' \in {"scheduling", "awaiting", "done", "failed"}
    /\ idx' \in {1, idx, idx + 1}

\* The run under the event loop, which resumes a call that can continue: the
\* search settles its promise at once and the continuation after the await is
\* queued as a microtask, so a run that has a step to take takes it.  With
\* [][Next]_vars this says what WF_vars(Next) says.
SpecFair == Spec /\ WF_<<pc, idx>>(Progress)

\* The same run on the work orders of the delay scenarios.
SpecScenario == InitScenario /\ [][Next]_vars

\* The same run on the work orders of the shift scenarios.
SpecShifts == InitShifts /\ [][Next]_vars

----------------------------------------------------------------------------
(* ConstraintChecker.findEarliestFeasibleSlot called on its own *)

\* await checker.findEarliestFeasibleSlot(workCenterDocId, start, duration)
Search ==
    /\ pc = "pending"
    /\ pending' = FindEarliestFeasibleSlot(workCenters, schedule,
                                           workOrders[1].workCenterId,
                                           FromISO(workOrders[1].startDate),
                                           workOrders[1].durationMinutes)
    /\ pc' = "searched"
    /\ UNCHANGED <<workOrders, workCenters, existingSchedule, schedule, adjList, inDegree,
                   orderedWorkOrderIds, results, idx, error, collided, calls, runs,
                   prevResults, prevOutcome, other>>

NextSearch == Search

SpecSearch == InitSearch /\ [][NextSearch]_vars

----------------------------------------------------------------------------
(* Two runs: the caller builds a second service from the same documents *)

\* new ReflowService(workOrders, workCenters, { existingSchedule }) once the
\* previous run has returned or thrown.
NewService ==
    /\ pc \in {"done", "failed"}
    /\ runs = 1
    /\ runs' = runs + 1
    /\ prevResults' = results
    /\ prevOutcome' = IF pc = "done" THEN "done" ELSE error
    /\ schedule' = NewSchedule(existingSchedule)
    /\ adjList' = EmptyMap
    /\ inDegree' = EmptyMap
    /\ orderedWorkOrderIds' = <<>>
    /\ results' = <<>>
    /\ pc' = "pending"
    /\ idx' = 0
    /\ pending' = NoPending
    /\ error' = "none"
    /\ collided' = {}
    /\ calls' = 0
    /\ UNCHANGED <<workOrders, workCenters, existingSchedule, other>>

NextTwice == Next \/ NewService

SpecTwice == InitNoLedger /\ [][NextTwice]_vars

----------------------------------------------------------------------------
(* Two calls of computeReflow on one service: they share the service's
   constraint checker, hence its ledger; everything else is local to a call *)

\* The second call, from its entry up to the loop: a graph of its own.  It is
\* made while the first call waits at its await or after the first call is
\* over.
OtherStartReflow ==
    /\ other.pc = "pending"
    /\ pc \in {"awaiting", "done", "failed"}
    /\ LET g == BuildGraph(workOrders)
           t == TopologicalOrder(workOrders, g.adjList, g.inDegree)
           called == [other EXCEPT !.afterFirst = (pc # "awaiting")]
       IN  other' =
               IF g.error # "none"
               THEN [called EXCEPT !.pc = "failed", !.error = g.error]
               ELSE IF t.error # "none"
               THEN [called EXCEPT !.pc = "failed", !.error = t.error]
               ELSE [called EXCEPT !.pc = "scheduling", !.orderedWorkOrderIds = t.sorted,
                                   !.idx = 1]
    /\ UNCHANGED <<workOrders, workCenters, existingSchedule, schedule, adjList, inDegree,
                   orderedWorkOrderIds, results, pc, idx, pending, error, collided, calls,
                   runs, prevResults, prevOutcome>>

\* The second call's loop iteration on a maintenance work order.
OtherEmitMaintenance ==
    /\ other.pc = "scheduling"
    /\ Suspended(pc)
    /\ other.idx <= Len(other.orderedWorkOrderIds)
    /\ IsMaintenance(OtherCurrentWo)
    /\ other' = [other EXCEPT !.results = Append(@, MaintenanceResult(OtherCurrentWo)),
                              !.idx = @ + 1]
    /\ UNCHANGED <<workOrders, workCenters, existingSchedule, schedule, adjList, inDegree,
                   orderedWorkOrderIds, results, pc, idx, pending, error, collided, calls,
                   runs, prevResults, prevOutcome>>

\* The second call's loop iteration on any other work order, up to the await:
\* the search reads the service's ledger as it is now.
OtherFindSlot ==
    /\ other.pc = "scheduling"
    /\ Suspended(pc)
    /\ other.idx <= Len(other.orderedWorkOrderIds)
    /\ ~IsMaintenance(OtherCurrentWo)
    /\ other' = [other EXCEPT
                     !.pending = FindEarliestFeasibleSlot(
                                     workCenters, schedule, OtherCurrentWo.workCenterId,
                                     EarliestStart(OtherCurrentWo, other.results),
                                     OtherCurrentWo.durationMinutes),
                     !.pc = "awaiting"]
    /\ UNCHANGED <<workOrders, workCenters, existingSchedule, schedule, adjList, inDegree,
                   orderedWorkOrderIds, results, pc, idx, pending, error, collided, calls,
                   runs, prevResults, prevOutcome>>

\* The second call after the await, the promise fulfilled: it books the slot
\* it holds in the service's ledger and pushes its result.
OtherCommitSlot ==
    /\ other.pc = "awaiting"
    /\ Suspended(pc)
    /\ other.pending.ok
    /\ schedule' = PushScheduledSlot(schedule, SlotOf(OtherCurrentWo, other.pending))
    /\ existingSchedule' =
           ExistingScheduleAfterPush(existingSchedule, SlotOf(OtherCurrentWo, other.pending))
    /\ other' = [other EXCEPT
                     !.results = Append(@, ScheduledResult(OtherCurrentWo, other.pending)),
                     !.pending = NoPending,
                     !.idx = @ + 1,
                     !.pc = "scheduling"]
    /\ UNCHANGED <<workOrders, workCenters, adjList, inDegree, orderedWorkOrderIds, results,
                   pc, idx, pending, error, collided, calls, runs, prevResults,
                   prevOutcome>>

\* The second call after the await, the promise rejected.
OtherCatchFailure ==
    /\ other.pc = "awaiting"
    /\ Suspended(pc)
    /\ ~other.pending.ok
    /\ other' = [other EXCEPT
                     !.results = PushFailedResult(@, OtherCurrentWo, other.pending.error),
                     !.pending = NoPending,
                     !.idx = @ + 1,
                     !.pc = "scheduling"]
    /\ UNCHANGED <<workOrders, workCenters, existingSchedule, schedule, adjList, inDegree,
                   orderedWorkOrderIds, results, pc, idx, pending, error, collided, calls,
                   runs, prevResults, prevOutcome>>

\* The second call's loop is over: it returns its results.
OtherReturnResults ==
    /\ other.pc = "scheduling"
    /\ Suspended(pc)
    /\ other.idx > Len(other.orderedWorkOrderIds)
    /\ other' = [other EXCEPT !.pc = "done"]
    /\ UNCHANGED <<workOrders, workCenters, existingSchedule, schedule, adjList, inDegree,
                   orderedWorkOrderIds, results, pc, idx, pending, error, collided, calls,
                   runs, prevResults, prevOutcome>>

NextSameService ==
    \/ Next
    \/ OtherStartReflow
    \/ OtherEmitMaintenance
    \/ OtherFindSlot
    \/ OtherCommitSlot
    \/ OtherCatchFailure
    \/ OtherReturnResults

SpecSameService == InitScenario /\ [][NextSameService]_vars

----------------------------------------------------------------------------
(* ConstraintChecker: the ledger used on its own *)

\* A start or end that is undefined or null.
MissingTime == -2

\* a.start.toMillis() - b.start.toMillis() is negative: toMillis() of an invalid
\* DateTime is NaN, and a comparator result of NaN counts as 0.
StartsBefore(a, b) == IsValidTime(a.start) /\ IsValidTime(b.start) /\ a.start < b.start

\* Array.prototype.sort on a short array, insertion sort (V8 before 7.0): each
\* element moves left past the elements the comparator puts after it.
RECURSIVE InsertFromRight(_, _)
InsertFromRight(prefix, x) ==
    IF prefix = <<>> THEN <<x>>
    ELSE IF StartsBefore(x, prefix[Len(prefix)])
         THEN Append(InsertFromRight(SubSeq(prefix, 1, Len(prefix) - 1), x),
                     prefix[Len(prefix)])
         ELSE Append(prefix, x)

RECURSIVE InsertionSortFrom(_, _)
InsertionSortFrom(seq, k) ==
    IF k > Len(seq) THEN seq
    ELSE InsertionSortFrom(InsertFromRight(SubSeq(seq, 1, k - 1), seq[k])
                               \o SubSeq(seq, k + 1, Len(seq)),
                           k + 1)

InsertionSort(seq) == InsertionSortFrom(seq, 2)

\* Array.prototype.sort on a short array, TimSort (V8 from 7.0): the length of
\* the run the array begins with, strictly descending or else non-descending.
RECURSIVE RunLengthFrom(_, _, _)
RunLengthFrom(seq, k, descending) ==
    IF k > Len(seq) THEN k - 1
    ELSE IF descending = StartsBefore(seq[k], seq[k - 1])
         THEN RunLengthFrom(seq, k + 1, descending)
         ELSE k - 1

Reverse(seq) == [k \in 1..Len(seq) |-> seq[Len(seq) + 1 - k]]

\* TimSort, binary insertion: the number of elements of seq[1..right] that stay
\* in front of pivot.
RECURSIVE BinarySearch(_, _, _, _)
BinarySearch(seq, pivot, left, right) ==
    IF left >= right THEN left
    ELSE LET mid == left + ((right - left) \div 2) IN
         IF StartsBefore(pivot, seq[mid + 1])
         THEN BinarySearch(seq, pivot, left, mid)
         ELSE BinarySearch(seq, pivot, mid + 1, right)

RECURSIVE BinaryInsertionFrom(_, _)
BinaryInsertionFrom(seq, k) ==
    IF k > Len(seq) THEN seq
    ELSE LET at == BinarySearch(seq, seq[k], 0, k - 1) IN
         BinaryInsertionFrom(SubSeq(seq, 1, at) \o <<seq[k]>> \o SubSeq(seq, at + 1, k - 1)
                                 \o SubSeq(seq, k + 1, Len(seq)),
                             k + 1)

TimSort(seq) ==
    IF Len(seq) < 2 THEN seq
    ELSE LET descending == StartsBefore(seq[2], seq[1])
             run == RunLengthFrom(seq, 3, descending)
             head == IF descending THEN Reverse(SubSeq(seq, 1, run)) ELSE SubSeq(seq, 1, run)
         IN  BinaryInsertionFrom(head \o SubSeq(seq, run + 1, Len(seq)), run + 1)

\* this.schedule.sort((a, b) => a.start.toMillis() - b.start.toMillis()): what
\* the engine's sort makes of the array.  With starts that are all instants
\* this is the stable sort by start; with an invalid DateTime among them the
\* comparator is not consistent and the order is the engine's.
SortOutcomes(seq) == {TimSort(seq), InsertionSort(seq)}

LedgerSlot(workCenterDocId, start, end) ==
    [workOrderDocId |-> 0, workCenterDocId |-> workCenterDocId, start |-> start, end |-> end]

\* The arguments of pushScheduledSlot: no slot; slots with DateTimes on two work
\* centers, two of them with the same start, one later than every caller's
\* slot; a slot whose start is an invalid
\* DateTime; slots whose start or end is missing.
PushArguments ==
    { <<>>,
      <<LedgerSlot("wc4", TimeAt(Monday, 8, 0), TimeAt(Monday, 9, 0))>>,
      <<LedgerSlot("wc4", TimeAt(Monday, 9, 0), TimeAt(Monday, 10, 0))>>,
      <<LedgerSlot("wc1", TimeAt(Monday, 9, 0), TimeAt(Monday, 9, 30))>>,
      <<LedgerSlot("wc4", TimeAt(Tuesday, 9, 0), TimeAt(Tuesday, 10, 0))>>,
      <<LedgerSlot("wc4", InvalidTime, TimeAt(Tuesday, 9, 0))>>,
      <<LedgerSlot("wc4", MissingTime, TimeAt(Tuesday, 9, 0))>>,
      <<LedgerSlot("wc4", TimeAt(Tuesday, 8, 0), MissingTime)>> }

\* The caller's existing schedule of the ledger runs: none, one slot, or two
\* slots listed latest first.
LedgerExistingSchedules ==
    { <<>>,
      <<LedgerSlot("wc4", TimeAt(Tuesday, 8, 0), TimeAt(Tuesday, 9, 0))>>,
      <<LedgerSlot("wc4", TimeAt(Tuesday, 8, 0), TimeAt(Tuesday, 9, 0)),
        LedgerSlot("wc4", TimeAt(Monday, 8, 30), TimeAt(Monday, 8, 45))>> }

\* new ConstraintChecker(workCenters, existingSchedule)
InitLedger ==
    /\ workOrders = <<>>
    /\ existingSchedule \in LedgerExistingSchedules
    /\ InitRest

\* checker.pushScheduledSlot(slot).  results lists the slots accepted so far,
\* prevResults is the ledger as the call found it, error the call's outcome.
PushSlot ==
    /\ pc = "pending"
    /\ calls < MaxCalls
    /\ \E slot \in PushArguments :
           IF slot = <<>> \/ slot[1].start = MissingTime \/ slot[1].end = MissingTime
           THEN /\ error' = "InvalidScheduledSlot"
                /\ UNCHANGED <<schedule, results>>
           ELSE /\ schedule' \in SortOutcomes(Append(schedule, slot[1]))
                /\ results' = Append(results, slot[1])
                /\ error' = "none"
    /\ prevResults' = schedule
    /\ calls' = calls + 1
    /\ UNCHANGED <<workOrders, workCenters, existingSchedule, adjList, inDegree,
                   orderedWorkOrderIds, pc, idx, pending, collided, runs, prevOutcome,
                   other>>

NextLedger == PushSlot

SpecLedger == InitLedger /\ [][NextLedger]_vars

----------------------------------------------------------------------------
(* Vocabulary of the properties: the dependency relation of the input *)

Ids == {workOrders[i].docId : i \in 1..Len(workOrders)}

Range(seq) == {seq[k] : k \in 1..Len(seq)}

\* The ids the work order id lists as its dependencies.
DependenciesOf(id) ==
    UNION {Range(workOrders[i].dependsOnWorkOrderIds) :
               i \in {k \in 1..Len(workOrders) : workOrders[k].docId = id}}

AllDependenciesExist == \A id \in Ids : DependenciesOf(id) \subseteq Ids

\* The ids reached from id by following at most k dependency edges upwards.
RECURSIVE AncestorsWithin(_, _)
AncestorsWithin(id, k) ==
    IF k = 0 THEN {}
    ELSE DependenciesOf(id)
             \cup UNION {AncestorsWithin(p, k - 1) : p \in DependenciesOf(id) \cap Ids}

OnCycle(id) == id \in AncestorsWithin(id, Len(workOrders))

HasCycle == \E id \in Ids : OnCycle(id)

\* The positions of id in a sequence of ids.
PositionsOf(seq, id) == {k \in 1..Len(seq) : seq[k] = id}

\* seq lists every work order id exactly once and nothing else.
IsPermutationOfIds(seq) ==
    /\ Len(seq) = Cardinality(Ids)
    /\ \A id \in Ids : Cardinality(PositionsOf(seq, id)) = 1

\* Every parent stands before each of its children in seq.
ParentsFirst(seq) ==
    \A child \in Ids : \A parent \in DependenciesOf(child) :
        \A pc1 \in PositionsOf(seq, parent) : \A pc2 \in PositionsOf(seq, child) : pc1 < pc2

InputOrder == [i \in 1..Len(workOrders) |-> workOrders[i].docId]

----------------------------------------------------------------------------
(* Properties of the DependencyGraph, checked under SpecGraph *)

\* C1: after the first getTopologicalOrder call on a fresh graph built from an
\* acyclic input whose dependency ids all exist, the call has returned a
\* permutation of all work order ids in which every parent stands before each
\* of its children.
C1_TopologicalOrderOfAcyclicInput ==
    (calls = 1 /\ AllDependenciesExist /\ ~HasCycle) =>
        /\ error = "none"
        /\ IsPermutationOfIds(orderedWorkOrderIds)
        /\ ParentsFirst(orderedWorkOrderIds)

\* C1 witness: the first call has returned on an acyclic input of MaxNodes work
\* orders in which a child with two parents comes first in the input, so the
\* order returned is not the input order.
C1_Witness ==
    /\ calls = 1
    /\ Len(workOrders) = MaxNodes
    /\ AllDependenciesExist /\ ~HasCycle
    /\ Cardinality(DependenciesOf(workOrders[1].docId)) = 2
    /\ orderedWorkOrderIds # InputOrder
    /\ Len(orderedWorkOrderIds) = MaxNodes

\* C2: after the first getTopologicalOrder call on a graph whose dependency
\* relation has a cycle, the call has failed with the cycle-detected error and
\* has returned no order.
C2_CycleDetected ==
    (calls = 1 /\ HasCycle) =>
        /\ error = "CycleDetected"
        /\ orderedWorkOrderIds = <<>>

\* C2 witness: the call has failed on an input with a cycle through two work
\* orders, no self-dependency, and one work order outside every cycle.
C2_Witness ==
    /\ calls = 1
    /\ error = "CycleDetected"
    /\ \E a \in Ids, b \in Ids :
           a # b /\ a \in DependenciesOf(b) /\ b \in DependenciesOf(a)
    /\ \A id \in Ids : id \notin DependenciesOf(id)
    /\ \E id \in Ids : ~OnCycle(id)

\* C2 witness of the single-node case: the call has failed on an input whose
\* only cycle is one work order depending on itself.
C2_SelfDependencyReached ==
    /\ calls = 1
    /\ error = "CycleDetected"
    /\ \E id \in Ids : id \in DependenciesOf(id)
    /\ \A id \in Ids : DependenciesOf(id) \subseteq {id}

\* C3: when some work order lists a dependency id that no input work order
\* has, constructing the graph fails with the unknown-dependency error: no
\* graph exists, so no order is ever produced.
C3_UnknownDependency ==
    (~AllDependenciesExist /\ pc # "pending") =>
        /\ pc = "failed"
        /\ error = "UnknownDependency"
        /\ calls = 0
        /\ orderedWorkOrderIds = <<>>

\* C3 witness: construction has failed on an input whose only unknown id is
\* listed last, after a valid id, by the last work order, the work orders
\* before it depending on each other in a cycle.
C3_Witness ==
    /\ pc = "failed"
    /\ error = "UnknownDependency"
    /\ Len(workOrders) >= 2
    /\ \A i \in 1..(Len(workOrders) - 1) :
           Range(workOrders[i].dependsOnWorkOrderIds) \subseteq Ids
    /\ Len(workOrders[Len(workOrders)].dependsOnWorkOrderIds) = 2
    /\ workOrders[Len(workOrders)].dependsOnWorkOrderIds[1] \in Ids
    /\ HasCycle

----------------------------------------------------------------------------
(* Vocabulary of the properties: the ledger and the results of a run *)

\* The ledger positions booked by this service (the caller's slots carry id 0).
EngineSlots == {k \in 1..Len(schedule) : schedule[k].workOrderDocId # 0}

\* The ledger positions booked for work order id.
SlotsOf(id) == {k \in 1..Len(schedule) : schedule[k].workOrderDocId = id}

\* Two slots intersect as half-open intervals [start, end).
Overlap(a, b) == a.start < b.end /\ b.start < a.end

\* The positions of the results reported for work order id.
ResultsOf(id) == {k \in 1..Len(results) : results[k].workOrderDocId = id}

ResultIds == [k \in 1..Len(results) |-> results[k].workOrderDocId]

\* The input work order with this id.
OrderOf(id) == WoById(workOrders, id)[1]

\* A result is the placeholder of a failed search.
IsDegraded(r) ==
    /\ r.wasDelayed
    /\ r.delayMinutes = <<>>
    /\ r.delayReason # <<>>
    /\ r.delayReason # <<"Resource/shift constraints">>

----------------------------------------------------------------------------
(* Properties of a computeReflow run, checked under Spec *)

\* C4: in every state of a run, no two slots booked by the service on the same
\* work center intersect as half-open intervals; and whenever the search for a
\* work order hit a booked slot, the start it returns, and the start booked for
\* that work order, is no earlier than the end of the slot that was hit.
C4_NoOverlapOnWorkCenter ==
    /\ \A i \in EngineSlots : \A j \in EngineSlots :
           (i # j /\ schedule[i].workCenterDocId = schedule[j].workCenterDocId)
               => ~Overlap(schedule[i], schedule[j])
    /\ \A c \in collided : \A k \in SlotsOf(c.workOrderDocId) :
           schedule[k].start >= c.slot.end
    /\ (pc = "awaiting" /\ pending.ok) =>
           \A c \in collided :
               c.workOrderDocId = CurrentWo.docId => pending.start >= c.slot.end

\* C4 witness: the run has returned with two slots booked by the service on
\* one work center, the later-processed order having hit the slot of the
\* earlier one at the start both were planned for.
C4_Witness ==
    /\ pc = "done"
    /\ \E c \in collided : \E k \in SlotsOf(c.workOrderDocId) :
           /\ c.slot.workOrderDocId # 0
           /\ c.slot.workCenterDocId = schedule[k].workCenterDocId
           /\ OrderOf(c.workOrderDocId).startDate = OrderOf(c.slot.workOrderDocId).startDate
           /\ SlotsOf(c.slot.workOrderDocId) # {}

\* C5: every work order the run has booked starts at or after the end reported
\* for each of its declared dependencies (the end of the dependency's booked
\* slot when the dependency was booked), each dependency having been reported
\* before it.
C5_StartsAfterDependencies ==
    \A k \in 1..Len(results) :
        SlotsOf(results[k].workOrderDocId) # {} =>
            \A depId \in Range(OrderOf(results[k].workOrderDocId).dependsOnWorkOrderIds) :
                /\ \E j \in 1..(k - 1) : results[j].workOrderDocId = depId
                /\ \A j \in ResultsOf(depId) :
                       /\ IsValidTime(FromISO(results[j].endDate)) =>
                              /\ FromISO(results[k].startDate) >= FromISO(results[j].endDate)
                              /\ \A s \in SlotsOf(results[k].workOrderDocId) :
                                     schedule[s].start >= FromISO(results[j].endDate)
                       /\ \A s \in SlotsOf(depId) :
                              results[j].endDate = ToISO(schedule[s].end)

\* C5 witness: the run has returned; a parent was booked later than planned, and
\* its child, planned on another work center to start before the parent's
\* booked end, was booked too.
C5_Witness ==
    /\ pc = "done"
    /\ \E k \in 1..Len(results) : \E j \in 1..Len(results) :
           /\ results[j].workOrderDocId
                  \in Range(OrderOf(results[k].workOrderDocId).dependsOnWorkOrderIds)
           /\ SlotsOf(results[k].workOrderDocId) # {}
           /\ SlotsOf(results[j].workOrderDocId) # {}
           /\ results[j].wasDelayed
           /\ results[j].workCenterDocId # results[k].workCenterDocId
           /\ FromISO(OrderOf(results[k].workOrderDocId).startDate)
                  < FromISO(results[j].endDate)

\* C6: in every state of a run the ledger holds no slot for a maintenance work
\* order and every result reported for one carries the order's planned start
\* and end, wasDelayed = false, no delay minutes and no reason; once the run
\* has returned, each maintenance work order has exactly one such result.
C6_MaintenanceReportedNotBooked ==
    \A i \in 1..Len(workOrders) :
        workOrders[i].isMaintenance =>
            /\ SlotsOf(workOrders[i].docId) = {}
            /\ \A k \in ResultsOf(workOrders[i].docId) :
                   /\ results[k].startDate = workOrders[i].startDate
                   /\ results[k].endDate = workOrders[i].endDate
                   /\ results[k].wasDelayed = FALSE
                   /\ results[k].delayMinutes = <<>>
                   /\ results[k].delayReason = <<>>
            /\ pc = "done" => Cardinality(ResultsOf(workOrders[i].docId)) = 1

\* C6 witness: the run has returned; a maintenance work order depending on a
\* parent that was booked to end after the maintenance order's planned start is
\* reported as planned, and the ledger holds a slot of its work center that
\* intersects its planned window.
C6_Witness ==
    /\ pc = "done"
    /\ \E i \in 1..Len(workOrders) : \E s \in EngineSlots :
           /\ workOrders[i].isMaintenance
           /\ ResultsOf(workOrders[i].docId) # {}
           /\ schedule[s].workOrderDocId \in Range(workOrders[i].dependsOnWorkOrderIds)
           /\ schedule[s].workCenterDocId = workOrders[i].workCenterId
           /\ Overlap(schedule[s], [start |-> FromISO(workOrders[i].startDate),
                                    end |-> FromISO(workOrders[i].endDate)])

\* C7: while the loop runs, the results reported so far are those of the work
\* orders already processed, in the order the topological sort returned; once
\* the run has returned there is exactly one result per input work order, each
\* id once, in the order of the topological sort.
C7_OneResultPerOrderInSortOrder ==
    /\ pc \in {"scheduling", "awaiting"} =>
           ResultIds = SubSeq(orderedWorkOrderIds, 1, idx - 1)
    /\ pc = "done" =>
           /\ ResultIds = orderedWorkOrderIds
           /\ IsPermutationOfIds(ResultIds)
           /\ ParentsFirst(ResultIds)

\* C7 witness: the run has returned the results of MaxOrders work orders in an
\* order that is not the input order, one of them the placeholder of a failed
\* search.
C7_Witness ==
    /\ pc = "done"
    /\ Len(results) = MaxOrders
    /\ ResultIds # InputOrder
    /\ \E k \in 1..Len(results) : IsDegraded(results[k])

\* C8: a failed search never ends the run with an error, and the step that
\* follows a failed search appends exactly the placeholder result (the order's
\* planned start and end, wasDelayed = true, no delay minutes, a reason
\* carrying the failure message), leaves the ledger as it is, and moves the
\* loop on to the next work order.
C8_FailedSearchDegradesOneOrder ==
    /\ [](error \in {"none", "UnknownDependency", "CycleDetected"})
    /\ [](pc = "failed" => idx = 0)
    /\ [][(pc = "awaiting" /\ ~pending.ok) =>
              /\ pending.error \in {"WorkCenterNotFound", "InvalidEarliestPossibleStart",
                                    "InvalidDurationMinutes", "UnschedulableDuration",
                                    "NoFeasibleSlot"}
              /\ results' = Append(results,
                     [workOrderDocId |-> CurrentWo.docId,
                      workCenterDocId |-> CurrentWo.workCenterId,
                      startDate |-> CurrentWo.startDate,
                      endDate |-> CurrentWo.endDate,
                      wasDelayed |-> TRUE,
                      delayMinutes |-> <<>>,
                      delayReason |-> <<"Scheduling failed: " \o pending.error>>])
              /\ schedule' = schedule
              /\ error' = "none"
              /\ pc' = "scheduling"
              /\ idx' = idx + 1]_vars

\* C8 witness: the run has returned; the search failed for the first work order
\* processed, which has no slot in the ledger, and the work order processed
\* after it was booked.
C8_Witness ==
    /\ pc = "done"
    /\ Len(results) = 2
    /\ IsDegraded(results[1])
    /\ SlotsOf(results[1].workOrderDocId) = {}
    /\ ~IsDegraded(results[2])
    /\ SlotsOf(results[2].workOrderDocId) # {}

\* The five causes of a failed search are each reached, the run returning.
C8_UnknownWorkCenterReached ==
    pc = "done" /\ \E k \in 1..Len(results) :
        results[k].delayReason = <<"Scheduling failed: WorkCenterNotFound">>

C8_InvalidStartReached ==
    pc = "done" /\ \E k \in 1..Len(results) :
        results[k].delayReason = <<"Scheduling failed: InvalidEarliestPossibleStart">>

C8_InvalidDurationReached ==
    pc = "done" /\ \E k \in 1..Len(results) :
        results[k].delayReason = <<"Scheduling failed: InvalidDurationMinutes">>

C8_UnschedulableDurationReached ==
    pc = "done" /\ \E k \in 1..Len(results) :
        results[k].delayReason = <<"Scheduling failed: UnschedulableDuration">>

C8_NoFeasibleSlotReached ==
    pc = "done" /\ \E k \in 1..Len(results) :
        results[k].delayReason = <<"Scheduling failed: NoFeasibleSlot">>

\* C9: when the input has an unknown dependency id or a dependency cycle, the
\* run, once started, has failed with that structural error, has produced no
\* result and has left the ledger as the constructor built it; and a run that
\* has ended has either failed so or returned one result per input work order.
C9_StructuralErrorAbortsBeforeScheduling ==
    /\ (pc # "pending" /\ (~AllDependenciesExist \/ HasCycle)) => pc = "failed"
    /\ pc = "failed" =>
           /\ error = (IF ~AllDependenciesExist THEN "UnknownDependency" ELSE "CycleDetected")
           /\ ~AllDependenciesExist \/ HasCycle
           /\ results = <<>>
           /\ schedule = NewSchedule(existingSchedule)
           /\ idx = 0
    /\ pc = "done" =>
           /\ error = "none"
           /\ Len(results) = Len(workOrders)

\* C9 witness: the run has failed with the cycle-detected error on an input
\* whose first work order, free of dependencies, could have been booked, the
\* caller's existing slot being all the ledger holds.
C9_Witness ==
    /\ pc = "failed"
    /\ error = "CycleDetected"
    /\ Len(workOrders) = MaxOrders
    /\ workOrders[1].dependsOnWorkOrderIds = <<>>
    /\ workOrders[1] = WorkOrderDoc(1, OrderKind("wc1", TimeAt(Monday, 8, 0), 120, FALSE), <<>>)
    /\ Len(schedule) = 1
    /\ results = <<>>

----------------------------------------------------------------------------
(* Property of two runs, checked under SpecTwice *)

\* C10: when a second service built from the same work orders and work
\* centers, with no existing ledger, has ended its run, it has ended the way
\* the first did: the same structural error, or the same result sequence
\* (same order, same start and end, same wasDelayed, delayMinutes and
\* delayReason for every work order).
C10_SameInputsSameResults ==
    (runs = 2 /\ pc \in {"done", "failed"}) =>
        /\ prevOutcome = (IF pc = "done" THEN "done" ELSE error)
        /\ Len(results) = Len(prevResults)
        /\ \A k \in 1..Len(results) :
               /\ results[k].workOrderDocId = prevResults[k].workOrderDocId
               /\ results[k].startDate = prevResults[k].startDate
               /\ results[k].endDate = prevResults[k].endDate
               /\ results[k].wasDelayed = prevResults[k].wasDelayed
               /\ results[k].delayMinutes = prevResults[k].delayMinutes
               /\ results[k].delayReason = prevResults[k].delayReason

\* C10 witness: the second run has returned MaxOrders results, as did the
\* first; in each, one work order was booked later than planned after hitting
\* the slot of the other.
C10_Witness ==
    /\ runs = 2
    /\ pc = "done"
    /\ Len(prevResults) = MaxOrders
    /\ Len(results) = MaxOrders
    /\ collided # {}
    /\ \E k \in 1..Len(prevResults) :
           /\ prevResults[k].wasDelayed
           /\ prevResults[k].delayMinutes # <<>>
    /\ existingSchedule = <<>>

----------------------------------------------------------------------------
(* Vocabulary of the properties: working time of a work center *)

\* The instant t lies inside a shift of the work center whose end hour is after
\* its start hour.
InValidShift(wc, t) ==
    \E k \in 1..Len(wc.shifts) :
        /\ wc.shifts[k].dayOfWeek = (t \div SecondsPerDay) % DaysPerWeek
        /\ wc.shifts[k].startHour < wc.shifts[k].endHour
        /\ wc.shifts[k].startHour * SecondsPerHour <= t % SecondsPerDay
        /\ t % SecondsPerDay < wc.shifts[k].endHour * SecondsPerHour

\* The instant t lies inside a maintenance window of the work center.
InMaintenanceWindow(wc, t) ==
    \E k \in 1..Len(wc.maintenanceWindows) :
        /\ wc.maintenanceWindows[k].startDate.valid
        /\ wc.maintenanceWindows[k].endDate.valid
        /\ FromISO(wc.maintenanceWindows[k].startDate) <= t
        /\ t < FromISO(wc.maintenanceWindows[k].endDate)

IsWorkingInstant(wc, t) == InValidShift(wc, t) /\ ~InMaintenanceWindow(wc, t)

\* The instants from a to b at which working time may begin or stop: a, b, and
\* the shift hours and maintenance bounds between them.
Breakpoints(wc, a, b) ==
    {a, b}
    \cup { t \in { d * SecondsPerDay + h * SecondsPerHour :
                      d \in (a \div SecondsPerDay)..(b \div SecondsPerDay),
                      h \in UNION {{wc.shifts[k].startHour, wc.shifts[k].endHour} :
                                       k \in 1..Len(wc.shifts)} } :
             a < t /\ t < b }
    \cup { t \in UNION {{FromISO(wc.maintenanceWindows[k].startDate),
                          FromISO(wc.maintenanceWindows[k].endDate)} :
                             k \in 1..Len(wc.maintenanceWindows)} :
             a < t /\ t < b }

\* The working seconds from the instants of points on: each stretch between an
\* instant and the next counts when it begins with a working instant.
RECURSIVE WorkingSecondsOver(_, _)
WorkingSecondsOver(wc, points) ==
    IF Cardinality(points) < 2 THEN 0
    ELSE LET p == CHOOSE x \in points : \A y \in points : x <= y
             rest == points \ {p}
             q == CHOOSE x \in rest : \A y \in rest : x <= y
         IN  (IF IsWorkingInstant(wc, p) THEN q - p ELSE 0) + WorkingSecondsOver(wc, rest)

\* The seconds of [a, b) inside a valid shift and outside every maintenance
\* window of the work center.
WorkingSeconds(wc, a, b) == WorkingSecondsOver(wc, Breakpoints(wc, a, b))

\* The work center a search on its own was asked for.
SearchedWorkCenter == WorkCenterById(workCenters, workOrders[1].workCenterId)[1]

----------------------------------------------------------------------------
(* Properties of findEarliestFeasibleSlot, checked under SpecSearch *)

\* C12 as claimed: the slot a search returns holds exactly durationMinutes of
\* working time, the minutes of [start, end) inside a valid shift and outside
\* every maintenance window of the work center.
C12_SlotHoldsExactlyTheDuration ==
    (pc = "searched" /\ pending.ok) =>
        WorkingSeconds(SearchedWorkCenter, pending.start, pending.end)
            = workOrders[1].durationMinutes * SecondsPerMinute

----------------------------------------------------------------------------
(* Properties of the delay report, checked under SpecScenario *)

\* The planned start of work order id.
PlannedStart(id) == FromISO(OrderOf(id).startDate)

\* The seconds between the planned start of the work order of result k and
\* the start of its slot s in the ledger.
StartGap(k, s) == schedule[s].start - PlannedStart(results[k].workOrderDocId)

\* C11 as claimed: every result of a booked work order has wasDelayed = true
\* exactly when the booked start is later than the planned start; when delayed,
\* delayMinutes is positive and equals the booked start minus the planned start
\* in minutes and delayReason is "Resource/shift constraints"; when not
\* delayed, delayMinutes and delayReason are absent.
C11_DelayMinutesIsTheGap ==
    \A k \in 1..Len(results) : \A s \in SlotsOf(results[k].workOrderDocId) :
        /\ results[k].wasDelayed <=> StartGap(k, s) > 0
        /\ results[k].wasDelayed =>
               /\ Len(results[k].delayMinutes) = 1
               /\ results[k].delayMinutes[1] > 0
               /\ results[k].delayMinutes[1] * SecondsPerMinute = StartGap(k, s)
               /\ results[k].delayReason = <<"Resource/shift constraints">>
        /\ ~results[k].wasDelayed =>
               /\ results[k].delayMinutes = <<>>
               /\ results[k].delayReason = <<>>

\* C11 amended: as claimed, except that delayMinutes is the booked start minus
\* the planned start rounded to the nearest whole minute (a half going up), a
\* non-negative whole number that is 0 when the gap is under thirty seconds.
C11_DelayMinutesIsTheRoundedGap ==
    \A k \in 1..Len(results) : \A s \in SlotsOf(results[k].workOrderDocId) :
        /\ results[k].wasDelayed <=> StartGap(k, s) > 0
        /\ results[k].wasDelayed =>
               /\ Len(results[k].delayMinutes) = 1
               /\ results[k].delayMinutes[1] >= 0
               /\ 2 * results[k].delayMinutes[1] * SecondsPerMinute - SecondsPerMinute
                      <= 2 * StartGap(k, s)
               /\ 2 * StartGap(k, s)
                      < 2 * results[k].delayMinutes[1] * SecondsPerMinute + SecondsPerMinute
               /\ results[k].delayReason = <<"Resource/shift constraints">>
        /\ ~results[k].wasDelayed =>
               /\ results[k].delayMinutes = <<>>
               /\ results[k].delayReason = <<>>

\* C11 witness: the run has returned; one work order, planned twenty seconds
\* before its shift opens, was booked at the opening and reported delayed by 0
\* minutes, and another, having hit that slot, was reported delayed by the 61
\* minutes between its planned and its booked start.
C11_Witness ==
    /\ pc = "done"
    /\ \E k \in 1..Len(results) : \E s \in SlotsOf(results[k].workOrderDocId) :
           /\ results[k].wasDelayed
           /\ results[k].delayMinutes = <<0>>
           /\ StartGap(k, s) = 20
    /\ \E k \in 1..Len(results) : \E s \in SlotsOf(results[k].workOrderDocId) :
           /\ results[k].wasDelayed
           /\ results[k].delayMinutes = <<61>>
           /\ StartGap(k, s) = 61 * SecondsPerMinute
           /\ \E c \in collided : c.workOrderDocId = results[k].workOrderDocId

\* The scenario of C13: a single work order of 120 minutes, not a maintenance
\* order, requested to start inside a shift that ends 60 minutes later, on a
\* work center without maintenance windows, the ledger holding nothing else.
SplitScenario ==
    /\ Len(workOrders) = 1
    /\ existingSchedule = <<>>
    /\ ~workOrders[1].isMaintenance
    /\ workOrders[1].durationMinutes = 120
    /\ workOrders[1].startDate.valid
    /\ WorkCenterById(workCenters, workOrders[1].workCenterId) # <<>>
    /\ LET wc == WorkCenterById(workCenters, workOrders[1].workCenterId)[1]
           start == FromISO(workOrders[1].startDate)
       IN  /\ wc.maintenanceWindows = <<>>
           /\ InValidShift(wc, start)
           /\ InValidShift(wc, PlusMinutes(start, 60) - 1)
           /\ ~InValidShift(wc, PlusMinutes(start, 60))

\* The openings, on the day after the requested start, of the shifts of the
\* work center of the scenario.
NextDayOpenings ==
    LET wc == WorkCenterById(workCenters, workOrders[1].workCenterId)[1]
        nextDay == (FromISO(workOrders[1].startDate) \div SecondsPerDay + 1) * SecondsPerDay
    IN  { nextDay + wc.shifts[k].startHour * SecondsPerHour :
              k \in { j \in 1..Len(wc.shifts) :
                          /\ wc.shifts[j].dayOfWeek = (nextDay \div SecondsPerDay) % DaysPerWeek
                          /\ wc.shifts[j].startHour < wc.shifts[j].endHour } }

\* C13 as claimed: in the scenario the run returns one result whose end is the
\* next day's shift opening plus 60 minutes, with wasDelayed = true and a
\* positive delayMinutes equal to the gap between the requested start and the
\* accepted start.
C13_SplitJobReportedDelayed ==
    (pc = "done" /\ SplitScenario) =>
        /\ Len(results) = 1
        /\ \E open \in NextDayOpenings : results[1].endDate = ToISO(PlusMinutes(open, 60))
        /\ results[1].wasDelayed
        /\ Len(results[1].delayMinutes) = 1
        /\ results[1].delayMinutes[1] > 0
        /\ results[1].delayMinutes[1] * SecondsPerMinute
               = FromISO(results[1].startDate) - FromISO(workOrders[1].startDate)

\* C13 amended: in the scenario the run returns one result whose end is the
\* next day's shift opening plus 60 minutes and whose start is the requested
\* start, so that wasDelayed = false and delayMinutes and delayReason are
\* absent; the ledger holds that one slot.
C13_SplitJobStartsAsRequested ==
    (pc = "done" /\ SplitScenario) =>
        /\ Len(results) = 1
        /\ \E open \in NextDayOpenings : results[1].endDate = ToISO(PlusMinutes(open, 60))
        /\ results[1].startDate = workOrders[1].startDate
        /\ results[1].wasDelayed = FALSE
        /\ results[1].delayMinutes = <<>>
        /\ results[1].delayReason = <<>>
        /\ Len(schedule) = 1
        /\ ToISO(schedule[1].start) = results[1].startDate
        /\ ToISO(schedule[1].end) = results[1].endDate

\* C13 witness: the run of the scenario has returned, the work order booked
\* from Monday 09:00, in a shift that closes at 10:00, to Tuesday 09:00.
C13_Witness ==
    /\ pc = "done"
    /\ SplitScenario
    /\ Len(schedule) = 1
    /\ schedule[1].start = TimeAt(Monday, 9, 0)
    /\ schedule[1].end = TimeAt(Tuesday, 9, 0)

\* The ends reported, before result k, for the dependencies of its work order,
\* as far as they parse.
DependencyEnds(k) ==
    { FromISO(results[j].endDate) :
          j \in { i \in 1..(k - 1) :
                      /\ results[i].workOrderDocId
                             \in Range(OrderOf(results[k].workOrderDocId).dependsOnWorkOrderIds)
                      /\ results[i].endDate.valid } }

\* The earliest allowed start of the work order of result k: the later of its
\* planned start and its dependencies' ends.
EarliestAllowedStart(k) ==
    LET all == DependencyEnds(k) \cup {PlannedStart(results[k].workOrderDocId)}
    IN  CHOOSE t \in all : \A u \in all : u <= t

\* The work order of result k can be placed at its earliest allowed start
\* undisturbed: it is no maintenance order, its planned start parses, its work
\* center exists and has no maintenance window, the earliest allowed start
\* lies in a shift whose remainder holds the duration, and no slot booked for
\* other work on that work center intersects the interval.
FitsUndisturbed(k) ==
    LET wo == OrderOf(results[k].workOrderDocId)
        e == EarliestAllowedStart(k)
        last == PlusMinutes(e, wo.durationMinutes)
    IN  /\ ~wo.isMaintenance
        /\ wo.startDate.valid
        /\ wo.durationMinutes > 0
        /\ WorkCenterById(workCenters, wo.workCenterId) # <<>>
        /\ LET wc == WorkCenterById(workCenters, wo.workCenterId)[1] IN
           /\ wc.maintenanceWindows = <<>>
           /\ \E j \in 1..Len(wc.shifts) :
                  /\ wc.shifts[j].dayOfWeek = (e \div SecondsPerDay) % DaysPerWeek
                  /\ wc.shifts[j].startHour * SecondsPerHour <= e % SecondsPerDay
                  /\ (e % SecondsPerDay) + wo.durationMinutes * SecondsPerMinute
                         <= wc.shifts[j].endHour * SecondsPerHour
        /\ \A s \in 1..Len(schedule) :
               (schedule[s].workCenterDocId = wo.workCenterId
                    /\ schedule[s].workOrderDocId # wo.docId)
                   => ~Overlap(schedule[s], [start |-> e, end |-> last])

\* Result k reports its work order booked at its earliest allowed start for
\* exactly its duration, and the ledger holds that slot.
PlacedAtEarliestAllowedStart(k) ==
    LET wo == OrderOf(results[k].workOrderDocId)
        e == EarliestAllowedStart(k)
        last == PlusMinutes(e, wo.durationMinutes)
    IN  /\ results[k].startDate = ToISO(e)
        /\ results[k].endDate = ToISO(last)
        /\ \E s \in SlotsOf(wo.docId) : schedule[s].start = e /\ schedule[s].end = last

\* C14 as claimed: a work order that fits undisturbed at its earliest allowed
\* start is placed there for exactly its duration and reported with
\* wasDelayed = false.
C14_UndisturbedOrderNotDelayed ==
    \A k \in 1..Len(results) :
        FitsUndisturbed(k) =>
            /\ PlacedAtEarliestAllowedStart(k)
            /\ results[k].wasDelayed = FALSE

\* C14 amended: a work order that fits undisturbed at its earliest allowed
\* start is placed there for exactly its duration; it is reported with
\* wasDelayed = false when that start is its planned start, and with
\* wasDelayed = true when a dependency's end, later than the planned start,
\* set it.
C14_UndisturbedOrderPlacedAtEarliestStart ==
    \A k \in 1..Len(results) :
        FitsUndisturbed(k) =>
            /\ PlacedAtEarliestAllowedStart(k)
            /\ results[k].wasDelayed
                   <=> EarliestAllowedStart(k) > PlannedStart(results[k].workOrderDocId)

\* C14 witness: the run has returned; a parent that fits undisturbed at its
\* planned start is reported not delayed, and its child, planned for the same
\* start, fits undisturbed right after the parent's end and is reported
\* delayed.
C14_Witness ==
    /\ pc = "done"
    /\ \E k \in 1..Len(results) : \E j \in 1..(k - 1) :
           /\ FitsUndisturbed(j) /\ ~results[j].wasDelayed
           /\ FitsUndisturbed(k) /\ results[k].wasDelayed
           /\ results[j].workOrderDocId
                  \in Range(OrderOf(results[k].workOrderDocId).dependsOnWorkOrderIds)
           /\ results[k].startDate = results[j].endDate
           /\ results[k].workCenterDocId = results[j].workCenterDocId

\* The earliest start of a work order when only dependencies whose own
\* scheduling succeeded constrain it: the later of its planned start and the
\* ends reported for those dependencies.
SuccessfulDependencyEnds(wo, res) ==
    { FromISO(res[j].endDate) :
          j \in { i \in 1..Len(res) :
                      /\ res[i].workOrderDocId \in Range(wo.dependsOnWorkOrderIds)
                      /\ ~IsDegraded(res[i])
                      /\ res[i].endDate.valid } }

EarliestStartIgnoringFailed(wo, res) ==
    IF ~wo.startDate.valid THEN InvalidTime
    ELSE LET all == SuccessfulDependencyEnds(wo, res) \cup {FromISO(wo.startDate)}
         IN  CHOOSE t \in all : \A u \in all : u <= t

\* Some dependency of the work order has a degraded result.
HasFailedDependency(wo, res) ==
    \E i \in 1..Len(res) :
        /\ res[i].workOrderDocId \in Range(wo.dependsOnWorkOrderIds)
        /\ IsDegraded(res[i])

\* C15: a dependency whose own scheduling failed contributes no constraint:
\* the outcome of the search for a work order is the outcome of the search
\* from the later of its planned start and the ends of its successfully
\* scheduled dependencies.
C15_FailedDependencyDoesNotConstrain ==
    (pc = "awaiting") =>
        LET unconstrained ==
                FindEarliestFeasibleSlot(workCenters, schedule, CurrentWo.workCenterId,
                                         EarliestStartIgnoringFailed(CurrentWo, results),
                                         CurrentWo.durationMinutes)
        IN  /\ pending.ok = unconstrained.ok
            /\ pending.start = unconstrained.start
            /\ pending.end = unconstrained.end

\* The case of C15 happens: a slot was searched for a work order one of whose
\* dependencies failed.
C15_FailedDependencyReached ==
    /\ pc = "awaiting"
    /\ pending.ok
    /\ HasFailedDependency(CurrentWo, results)

\* The start the search was asked for.
SearchedEarliestStart == FromISO(workOrders[1].startDate)

\* A slot of the work center's duration could begin at t: t is inside a shift
\* and outside maintenance, and the interval the duration needs from t
\* intersects no booked slot of the work center.
FeasibleStart(wc, sched, t, durationMinutes) ==
    /\ IsWorkingInstant(wc, t)
    /\ LET needed == AddWorkingMinutesConsideringShifts(t, durationMinutes, wc) IN
       /\ needed.ok
       /\ \A s \in 1..Len(sched) :
              sched[s].workCenterDocId = wc.docId
                  => ~Overlap(sched[s], [start |-> t, end |-> needed.end])

\* C16: the slot findEarliestFeasibleSlot returns is the earliest feasible
\* one: no instant from the requested earliest start up to, but excluding, the
\* returned start (taken minute by minute) is a feasible start.
C16_ReturnsEarliestFeasibleSlot ==
    (pc = "searched" /\ pending.ok) =>
        \A i \in 0..((pending.start - SearchedEarliestStart) \div SecondsPerMinute) :
            LET t == PlusMinutes(SearchedEarliestStart, i) IN
            t < pending.start
                => ~FeasibleStart(SearchedWorkCenter, schedule, t,
                                  workOrders[1].durationMinutes)

\* The case of C16 happens: the search collided with a booked slot and
\* returned a slot after it.
C16_CollisionReached ==
    /\ pc = "searched"
    /\ pending.ok
    /\ pending.collided # <<>>
    /\ pending.start > SearchedEarliestStart

\* C17: the start of every slot findEarliestFeasibleSlot returns is inside a
\* valid shift of the work center and outside every one of its maintenance
\* windows.
C17_ReturnedStartIsAWorkingInstant ==
    (pc = "searched" /\ pending.ok) =>
        /\ InValidShift(SearchedWorkCenter, pending.start)
        /\ ~InMaintenanceWindow(SearchedWorkCenter, pending.start)

\* The cases of C17 happen: the search skipped a maintenance window that ends
\* after the shift does, and one that another window overlaps.
C17_MaintenancePastShiftEndReached ==
    /\ pc = "searched"
    /\ pending.ok
    /\ workOrders[1].workCenterId = "wc5"
    /\ InMaintenanceWindow(SearchedWorkCenter, SearchedEarliestStart)

C17_OverlappingMaintenanceReached ==
    /\ pc = "searched"
    /\ pending.ok
    /\ workOrders[1].workCenterId = "wc6"
    /\ InMaintenanceWindow(SearchedWorkCenter, SearchedEarliestStart)

\* The results of the two calls that report a booked slot, as intervals.
BookedInterval(r) == [start |-> FromISO(r.startDate), end |-> FromISO(r.endDate)]

IsBooked(r) ==
    /\ ~IsDegraded(r)
    /\ ~OrderOf(r.workOrderDocId).isMaintenance

\* C18: two calls of computeReflow on the same service, however they
\* interleave, never both accept the same slot or intersecting slots of one
\* work center.
C18_InterleavedCallsAcceptDisjointSlots ==
    \A j \in 1..Len(results) : \A k \in 1..Len(other.results) :
        (/\ IsBooked(results[j])
         /\ IsBooked(other.results[k])
         /\ results[j].workCenterDocId = other.results[k].workCenterDocId)
            => ~Overlap(BookedInterval(results[j]), BookedInterval(other.results[k]))

\* The case of C18 happens: the second call searched while the first call held
\* a found slot it had not yet booked.
C18_SearchDuringAwaitReached ==
    /\ pc = "awaiting"
    /\ pending.ok
    /\ other.pc = "awaiting"
    /\ other.pending.ok
    /\ ~other.afterFirst

\* C19: each run works on a ledger of its own, so a second computeReflow call
\* on the same service, made after the first has returned, returns the same
\* sequence of results.
C19_SecondCallReturnsTheSameResults ==
    (pc = "done" /\ other.pc = "done" /\ other.afterFirst) => other.results = results

\* The case of C19 happens: a second call made after the first returned has
\* returned too, and the first call had booked a slot.
C19_SecondCallReturnedReached ==
    /\ pc = "done"
    /\ other.pc = "done"
    /\ other.afterFirst
    /\ \E k \in 1..Len(results) : IsBooked(results[k])

\* What getTopologicalOrder returns on a graph just built from the work orders.
FirstTopologicalOrder ==
    LET g == BuildGraph(workOrders) IN TopologicalOrder(workOrders, g.adjList, g.inDegree)

\* C20: getTopologicalOrder has no side effect on the graph, and every call on
\* the same graph gives what the first call gave: the same sequence for an
\* acyclic input, the cycle error for a cyclic one.
C20_TopologicalOrderRepeatable ==
    (pc = "built" /\ calls >= 1) =>
        /\ inDegree = BuildGraph(workOrders).inDegree
        /\ orderedWorkOrderIds = FirstTopologicalOrder.sorted
        /\ error = FirstTopologicalOrder.error

\* The cases of C20 happen: a second call on an acyclic graph with a
\* dependency, and a second call on a cyclic graph.
C20_SecondCallOnAcyclicReached ==
    /\ pc = "built"
    /\ calls = 2
    /\ ~HasCycle
    /\ \E k \in 1..Len(workOrders) : workOrders[k].dependsOnWorkOrderIds # <<>>

C20_SecondCallOnCyclicReached ==
    /\ pc = "built"
    /\ calls = 2
    /\ HasCycle


----------------------------------------------------------------------------
(* Bounds of the search: never earlier than asked, the horizon, termination *)

\* C21: a slot found by the search starts at or after the earliest start the
\* search was given, hence at or after the work order's planned start; and
\* every work order reported as booked starts, in its result and in the
\* ledger, at or after its planned start.
C21_NeverEarlierThanAsked ==
    /\ (pc = "awaiting" /\ pending.ok) =>
           /\ pending.start >= EarliestStart(CurrentWo, results)
           /\ pending.start >= FromISO(CurrentWo.startDate)
    /\ \A k \in 1..Len(results) :
           IsBooked(results[k]) =>
               /\ FromISO(results[k].startDate) >= PlannedStart(results[k].workOrderDocId)
               /\ \A s \in SlotsOf(results[k].workOrderDocId) :
                      schedule[s].start >= PlannedStart(results[k].workOrderDocId)

\* C21 witness: a work order was booked at its planned start, and the search
\* for the next one, having collided with a booked slot, returned a start
\* later than the earliest start it was given.
C21_Witness ==
    /\ pc = "awaiting"
    /\ pending.ok
    /\ pending.collided # <<>>
    /\ pending.start > EarliestStart(CurrentWo, results)
    /\ \E k \in 1..Len(results) :
           /\ IsBooked(results[k])
           /\ FromISO(results[k].startDate) = PlannedStart(results[k].workOrderDocId)


\* The deadline of the search: the requested earliest start plus the horizon.
SearchDeadline == SearchedEarliestStart + MaxSearchDays * SecondsPerDay

\* C22: a slot returned by findEarliestFeasibleSlot starts no later than the
\* requested earliest start plus the search horizon.
C22_ReturnedStartWithinHorizon ==
    (pc = "searched" /\ pending.ok) => pending.start <= SearchDeadline

\* The case of C22 happens: the search returned a slot whose start the
\* maintenance skip had moved.
C22_SkippedMaintenanceReached ==
    /\ pc = "searched"
    /\ pending.ok
    /\ workOrders[1].workCenterId = "wc7"
    /\ InMaintenanceWindow(SearchedWorkCenter, SearchedEarliestStart)


\* C23: every search ends, with a slot or a failure, and every run ends.
\* Along the collisions of one search the colliding slots' ends strictly
\* increase (each retry starts after the slot just hit); every run eventually
\* ends, and a run on an input free of structural errors eventually returns.
C23_EverySearchAndRunEnds ==
    /\ [](\A j \in 1..Len(pending.collided) : \A i \in 1..(j - 1) :
              pending.collided[i].end < pending.collided[j].end)
    /\ <>RunEnded
    /\ (AllDependenciesExist /\ ~HasCycle) => <>(pc = "done")

\* C23 witness: the run has returned after a search that collided twice and
\* retried twice for one work order.
C23_Witness ==
    /\ pc = "done"
    /\ \E a \in collided : \E b \in collided :
           /\ a.workOrderDocId = b.workOrderDocId
           /\ a.slot # b.slot


----------------------------------------------------------------------------
(* Shifts that are not valid *)

\* The shift's end hour is strictly greater than its start hour.
IsValidShift(shift) == shift.endHour > shift.startHour

HasValidShift(wc) == \E k \in 1..Len(wc.shifts) : IsValidShift(wc.shifts[k])

\* The work center of a work order, <<>> when the id is unknown.
WorkCenterOf(wo) == WorkCenterById(workCenters, wo.workCenterId)

\* The work order's work center exists and none of its shifts is valid.
OnWorkCenterWithoutValidShift(wo) ==
    WorkCenterOf(wo) # <<>> /\ ~HasValidShift(WorkCenterOf(wo)[1])

\* C24: a shift whose end hour is not strictly greater than its start hour
\* gives no interval on any day, and no slot on a work center without
\* maintenance starts outside the valid shifts; the search on a work center
\* with no valid shift fails (the current work order's, and any search with
\* the same start and duration on a work center that declares no shift or
\* only invalid ones), and each non-maintenance work order of such a work
\* center gets a degraded result and no slot.
C24_InvalidShiftsNeverScheduled ==
    /\ \A w \in 1..Len(workCenters) : \A day \in 0..(DaysPerWeek - 1) :
           LET intervals ==
                   BuildShiftIntervalsForDate(workCenters[w].shifts, day * SecondsPerDay)
           IN  /\ \A k \in 1..Len(intervals) : intervals[k].start < intervals[k].end
               /\ Len(intervals) =
                      Cardinality({k \in 1..Len(workCenters[w].shifts) :
                                       /\ workCenters[w].shifts[k].dayOfWeek = day
                                       /\ IsValidShift(workCenters[w].shifts[k])})
    /\ \A s \in EngineSlots :
           LET wc == WorkCenterById(workCenters, schedule[s].workCenterDocId)[1] IN
           wc.maintenanceWindows = <<>> => InValidShift(wc, schedule[s].start)
    /\ (pc = "awaiting" /\ OnWorkCenterWithoutValidShift(CurrentWo)) => ~pending.ok
    /\ (pc = "awaiting" /\ CurrentWo.durationMinutes > 0) =>
           \A w \in 1..Len(workCenters) :
               ~HasValidShift(workCenters[w]) =>
                   ~FindEarliestFeasibleSlot(workCenters, schedule, workCenters[w].docId,
                                             EarliestStart(CurrentWo, results),
                                             CurrentWo.durationMinutes).ok
    /\ \A k \in 1..Len(results) :
           LET wo == OrderOf(results[k].workOrderDocId) IN
           (OnWorkCenterWithoutValidShift(wo) /\ ~wo.isMaintenance) =>
               /\ IsDegraded(results[k])
               /\ SlotsOf(wo.docId) = {}

\* C24 witness: the run has returned; a work order on a work center whose
\* shifts are all invalid got a degraded result, and a work order on a work
\* center that declares an inverted shift beside a valid one was booked.
C24_Witness ==
    /\ pc = "done"
    /\ \E j \in 1..Len(results) : \E k \in 1..Len(results) :
           /\ OnWorkCenterWithoutValidShift(OrderOf(results[j].workOrderDocId))
           /\ WorkCenterOf(OrderOf(results[j].workOrderDocId))[1].shifts # <<>>
           /\ IsDegraded(results[j])
           /\ IsBooked(results[k])
           /\ \E n \in 1..Len(WorkCenterOf(OrderOf(results[k].workOrderDocId))[1].shifts) :
                  ~IsValidShift(WorkCenterOf(OrderOf(results[k].workOrderDocId))[1].shifts[n])


----------------------------------------------------------------------------
(* The end of a slot *)

\* C25: the end of the slot findEarliestFeasibleSlot returns is the earliest
\* instant by which durationMinutes of working time have passed since the
\* start: the working time in [start, end) is the duration, and the instant
\* just before the end is a working instant.
C25_EndIsWhereTheLastMinuteIsConsumed ==
    (pc = "searched" /\ pending.ok) =>
        /\ WorkingSeconds(SearchedWorkCenter, pending.start, pending.end)
               = workOrders[1].durationMinutes * SecondsPerMinute
        /\ IsWorkingInstant(SearchedWorkCenter, pending.end - 1)

\* The case of C25 happens: the last minute of a slot was consumed exactly at
\* the start of a maintenance window.
C25_LastMinuteAtMaintenanceStartReached ==
    /\ pc = "searched"
    /\ pending.ok
    /\ \E k \in 1..Len(SearchedWorkCenter.maintenanceWindows) :
           LET opens == FromISO(SearchedWorkCenter.maintenanceWindows[k].startDate) IN
           /\ pending.start < opens
           /\ WorkingSeconds(SearchedWorkCenter, pending.start, opens)
                  = workOrders[1].durationMinutes * SecondsPerMinute
           /\ IsWorkingInstant(SearchedWorkCenter, opens - 1)


----------------------------------------------------------------------------
(* The run as a state machine *)

\* The phases of a run in their order: before the call; ordered and in the
\* loop; ended.
PhaseRank(position) ==
    CASE position = "pending" -> 0
      [] position \in {"scheduling", "awaiting"} -> 1
      [] OTHER -> 2

\* C26: a run only moves forward.  In the loop the index is between 1 and one
\* past the last work order, and the results so far are those of the work
\* orders before the index, in order; a step never goes back to an earlier
\* phase, keeps the index (when the loop suspends at the await) or raises it
\* by one, never changes a result already pushed, and after a failed search
\* pushes one result and goes on with the next index.
C26_RunOnlyMovesForward ==
    /\ [](pc \in {"scheduling", "awaiting", "done"} =>
              /\ idx \in 1..(Len(orderedWorkOrderIds) + 1)
              /\ pc = "awaiting" => idx <= Len(orderedWorkOrderIds)
              /\ pc = "done" => idx = Len(orderedWorkOrderIds) + 1
              /\ ResultIds = SubSeq(orderedWorkOrderIds, 1, idx - 1))
    /\ [][/\ PhaseRank(pc') >= PhaseRank(pc)
          /\ pc = "pending" => idx' \in {idx, 1}
          /\ pc # "pending" =>
                 /\ idx' \in {idx, idx + 1}
                 /\ idx' = idx + 1 <=> Len(results') = Len(results) + 1
          /\ SubSeq(results', 1, Len(results)) = results
          /\ (pc = "awaiting" /\ ~pending.ok) =>
                 /\ pc' = "scheduling"
                 /\ idx' = idx + 1]_vars

\* C26 witness: the run has returned after two loop iterations; the first
\* work order was booked, the search for the second failed.
C26_Witness ==
    /\ pc = "done"
    /\ idx = 3
    /\ IsBooked(results[1])
    /\ IsDegraded(results[2])


\* The loop is at a work order whose earliest start it computes.
ComputesEarliestStart ==
    /\ pc \in {"scheduling", "awaiting"}
    /\ idx <= Len(orderedWorkOrderIds)
    /\ ~IsMaintenance(CurrentWo)

\* C27: where the loop computes a work order's earliest start, each of its
\* declared dependencies has a result among those pushed in earlier
\* iterations; and no step changes a result once it is pushed.
C27_DependencyResultsComeFirst ==
    /\ [](ComputesEarliestStart =>
              \A d \in Range(CurrentWo.dependsOnWorkOrderIds) :
                  \E k \in 1..(idx - 1) :
                      /\ k <= Len(results)
                      /\ results[k].workOrderDocId = d)
    /\ [][\A k \in 1..Len(results) : k <= Len(results') /\ results'[k] = results[k]]_vars

\* C27 witness: the search has run for a work order that stands first in the
\* input and depends on the second, whose result is already there.
C27_Witness ==
    /\ pc = "awaiting"
    /\ Len(workOrders) = 2
    /\ CurrentWo.docId = workOrders[1].docId
    /\ Range(CurrentWo.dependsOnWorkOrderIds) = {workOrders[2].docId}
    /\ Len(results) = 1
    /\ results[1].workOrderDocId = workOrders[2].docId


\* The position of id in the order returned.
SortedPosition(id) == CHOOSE k \in 1..Len(orderedWorkOrderIds) : orderedWorkOrderIds[k] = id

\* The position of id in the input.
InputPosition(id) == CHOOSE i \in 1..Len(workOrders) : workOrders[i].docId = id

\* The parent whose dequeue makes child ready: of its dependencies, the one
\* dequeued last.
ReleasedBy(child) ==
    CHOOSE p \in DependenciesOf(child) :
        \A q \in DependenciesOf(child) : SortedPosition(q) <= SortedPosition(p)

\* Two work orders that no dependency orders against each other at the moment
\* they are queued: both without dependencies, or both released by the dequeue
\* of the same parent.
QueuedTogether(a, b) ==
    \/ DependenciesOf(a) = {} /\ DependenciesOf(b) = {}
    \/ /\ DependenciesOf(a) # {} /\ DependenciesOf(b) # {}
       /\ ReleasedBy(a) = ReleasedBy(b)

\* C28: in an order returned for an acyclic input, work orders without
\* dependencies stand in their input order, and so do work orders released by
\* the dequeue of the same parent.
C28_TopologicalOrderIsStable ==
    (pc = "built" /\ calls >= 1 /\ error = "none" /\ ~HasCycle) =>
        \A a \in Ids : \A b \in Ids :
            (QueuedTogether(a, b) /\ InputPosition(a) < InputPosition(b))
                => SortedPosition(a) < SortedPosition(b)

\* C28 witness: the first call has returned an order that is not the input
\* order, the parent being last in the input, with its two children behind it
\* in their input order.
C28_Witness ==
    /\ pc = "built" /\ calls = 1 /\ error = "none"
    /\ Len(workOrders) = MaxNodes
    /\ DependenciesOf(workOrders[1].docId) = {workOrders[MaxNodes].docId}
    /\ DependenciesOf(workOrders[2].docId) = {workOrders[MaxNodes].docId}
    /\ orderedWorkOrderIds = <<workOrders[MaxNodes].docId, workOrders[1].docId, workOrders[2].docId>>

\* C28 second witness: the first call has returned on an input of MaxNodes work
\* orders without dependencies.
C28_NoDependenciesReached ==
    /\ pc = "built" /\ calls = 1 /\ error = "none"
    /\ Len(workOrders) = MaxNodes
    /\ \A id \in Ids : DependenciesOf(id) = {}
    /\ orderedWorkOrderIds = InputOrder


\* The number of times slot e stands in a sequence of slots.
Occurrences(seq, e) == Cardinality({k \in 1..Len(seq) : seq[k] = e})

\* The ledger positions holding the caller's slots.
ExistingSlots == {k \in 1..Len(schedule) : schedule[k].workOrderDocId = 0}

\* C29: no slot found or booked by the run intersects a caller's slot of the
\* same work center, and the ledger holds each caller's slot as supplied, as
\* many times as supplied, in every state of the run, whether or not the slot
\* lies in a shift or intersects another caller's slot.
C29_ExistingSlotsAreAuthoritative ==
    /\ \A i \in EngineSlots : \A k \in 1..Len(existingSchedule) :
           schedule[i].workCenterDocId = existingSchedule[k].workCenterDocId
               => ~Overlap(schedule[i], existingSchedule[k])
    /\ (pc = "awaiting" /\ pending.ok) =>
           \A k \in 1..Len(existingSchedule) :
               CurrentWo.workCenterId = existingSchedule[k].workCenterDocId
                   => ~Overlap(pending, existingSchedule[k])
    /\ Cardinality(ExistingSlots) = Len(existingSchedule)
    /\ \A k \in 1..Len(existingSchedule) :
           Occurrences(schedule, existingSchedule[k])
               = Occurrences(existingSchedule, existingSchedule[k])

\* C29 witness: the run has returned with a slot booked on a work center for
\* which the caller supplied two slots that intersect each other, one of them
\* starting outside every shift, after the search collided with a caller's slot.
C29_Witness ==
    /\ pc = "done"
    /\ \E i \in EngineSlots : \E j \in ExistingSlots : \E k \in ExistingSlots :
           /\ j # k
           /\ schedule[i].workCenterDocId = schedule[j].workCenterDocId
           /\ schedule[i].workCenterDocId = schedule[k].workCenterDocId
           /\ Overlap(schedule[j], schedule[k])
           /\ ~InValidShift(WorkCenterById(workCenters, schedule[j].workCenterDocId)[1],
                            schedule[j].start)
           /\ \E c \in collided : c.slot = schedule[k]


\* The ledger slots of one work center, in ledger order.
OnWorkCenter(sched, workCenterDocId) ==
    SelectSeq(sched, LAMBDA slot : slot.workCenterDocId = workCenterDocId)

\* What the search returns for work order wo when nothing else has been booked
\* by the run: the ledger is the caller's schedule.
SlotAlone(wo) ==
    FindEarliestFeasibleSlot(workCenters, NewSchedule(existingSchedule), wo.workCenterId,
                             FromISO(wo.startDate), wo.durationMinutes)

\* Work order wo has no dependencies and its work center is named by no other
\* work order of the input.
AloneOnWorkCenter(wo) ==
    /\ ~wo.isMaintenance
    /\ wo.dependsOnWorkOrderIds = <<>>
    /\ \A i \in 1..Len(workOrders) :
           workOrders[i].docId # wo.docId => workOrders[i].workCenterId # wo.workCenterId

\* C30: the search step leaves the ledger as it is and only the commit after a
\* successful search adds to it, one slot; what a search returns is what it
\* returns on the ledger's slots of its own work center; and a work order
\* without dependencies whose work center no other work order uses gets the slot
\* the search returns for it on the caller's schedule alone.
C30_SearchReadsOnlyItsWorkCenter ==
    /\ [][/\ (pc = "scheduling" /\ pc' = "awaiting") => schedule' = schedule
          /\ schedule' # schedule =>
                 /\ pc = "awaiting" /\ pending.ok
                 /\ schedule' = PushScheduledSlot(schedule, SlotOf(CurrentWo, pending))]_vars
    /\ []((pc = "awaiting") =>
              pending = FindEarliestFeasibleSlot(
                            workCenters, OnWorkCenter(schedule, CurrentWo.workCenterId),
                            CurrentWo.workCenterId, EarliestStart(CurrentWo, results),
                            CurrentWo.durationMinutes))
    /\ [](\A k \in 1..Len(results) :
              LET wo == OrderOf(results[k].workOrderDocId) IN
              AloneOnWorkCenter(wo) =>
                  IF SlotAlone(wo).ok
                  THEN /\ IsBooked(results[k])
                       /\ results[k].startDate = ToISO(SlotAlone(wo).start)
                       /\ results[k].endDate = ToISO(SlotAlone(wo).end)
                  ELSE IsDegraded(results[k]))

\* C30 witness: the run has returned with two work orders of the same planned
\* window booked on different work centers, both at the planned start.
C30_Witness ==
    /\ pc = "done"
    /\ Len(results) = 2
    /\ workOrders[1].workCenterId # workOrders[2].workCenterId
    /\ workOrders[1].startDate = workOrders[2].startDate
    /\ workOrders[1].endDate = workOrders[2].endDate
    /\ \A k \in 1..2 :
           /\ IsBooked(results[k])
           /\ AloneOnWorkCenter(OrderOf(results[k].workOrderDocId))
           /\ results[k].startDate = workOrders[1].startDate
           /\ results[k].endDate = workOrders[1].endDate


----------------------------------------------------------------------------
(* The inputs of a run *)

\* C31: no step of a run changes the work order documents, the work center
\* documents or the caller's existingSchedule array, whether the step books a
\* slot, pushes a placeholder result, or ends the run with a structural error.
C31_InputsUnchanged ==
    [][/\ workOrders' = workOrders
       /\ workCenters' = workCenters
       /\ existingSchedule' = existingSchedule]_vars

\* C31 witness: the run has returned with one work order booked and one
\* degraded, the ledger holding one slot more than the caller's array, which
\* lists its two slots latest first as supplied.
C31_Witness ==
    /\ pc = "done"
    /\ Len(existingSchedule) = 2
    /\ existingSchedule[1].start > existingSchedule[2].start
    /\ Len(schedule) = Len(existingSchedule) + 1
    /\ \E j \in 1..Len(results) : \E k \in 1..Len(results) :
           IsBooked(results[j]) /\ IsDegraded(results[k])

\* C31 second witness: the run has ended with a structural error, the caller
\* having supplied slots.
C31_StructuralFailureReached ==
    /\ pc = "failed"
    /\ error \in {"UnknownDependency", "CycleDetected"}
    /\ Len(existingSchedule) = 2
    /\ Len(workOrders) = MaxOrders


----------------------------------------------------------------------------
(* The ledger *)

\* The ledger's slots stand in non-decreasing order of start, as far as their
\* starts are instants.
SortedByStart(seq) ==
    \A i \in 1..Len(seq) : \A j \in 1..Len(seq) :
        (i < j /\ IsValidTime(seq[i].start) /\ IsValidTime(seq[j].start))
            => seq[i].start <= seq[j].start

\* C32: after any sequence of pushScheduledSlot calls the ledger holds every
\* caller's slot and every accepted slot, as many times as supplied, and nothing
\* else; its slots are in non-decreasing order of start; and a call with no
\* slot or with a slot whose start or end is missing has failed and left the
\* ledger as it found it.
C32_LedgerAppendOnlyAndSorted ==
    /\ \A k \in 1..Len(schedule) :
           Occurrences(schedule, schedule[k])
               = Occurrences(existingSchedule, schedule[k]) + Occurrences(results, schedule[k])
    /\ Len(schedule) = Len(existingSchedule) + Len(results)
    /\ (calls > 0 /\ error = "none") => Len(schedule) = Len(prevResults) + 1
    /\ (calls > 0 /\ error # "none") => schedule = prevResults
    /\ SortedByStart(schedule)

\* C32 without the order of the slots: what holds of every ledger.
C32_LedgerAppendOnly ==
    /\ \A k \in 1..Len(schedule) :
           Occurrences(schedule, schedule[k])
               = Occurrences(existingSchedule, schedule[k]) + Occurrences(results, schedule[k])
    /\ Len(schedule) = Len(existingSchedule) + Len(results)
    /\ (calls > 0 /\ error = "none") => Len(schedule) = Len(prevResults) + 1
    /\ (calls > 0 /\ error # "none") => schedule = prevResults
    /\ (\A k \in 1..Len(schedule) : IsValidTime(schedule[k].start)) => SortedByStart(schedule)

\* The case C32 fails in: a slot whose start is an invalid DateTime was
\* accepted, and a slot accepted after it stands behind a later one.
C32_InvalidStartAcceptedReached ==
    /\ error = "none"
    /\ \E k \in 1..Len(results) : results[k].start = InvalidTime
    /\ ~SortedByStart(schedule)

\* A call with a missing end has failed on a ledger of three slots.
C32_MissingEndRejectedReached ==
    /\ calls = MaxCalls
    /\ error = "InvalidScheduledSlot"
    /\ Len(schedule) = 3
    /\ schedule = prevResults

====
